---- MODULE Spec2Model ----
(***************************************************************************)
(* A model of spellbook's Image3D (src/spellbook/src/Geometry/Image3D.js): *)
(* the heightmap load coordinator, the geometry life cycle of the model    *)
(* and its views on top of the reference-counted cache, and the morph      *)
(* animator.                                                               *)
(*                                                                         *)
(* The program state is threaded through the handlers as one record `st`;  *)
(* every operator that models a function of the source takes the state and *)
(* returns the state after the call.  A fatal failure (a failed            *)
(* log_.assert_, a cache protocol failure, a DOM exception) is an          *)
(* exception of the JavaScript program: it is recorded in st.err and every *)
(* later statement of the running handler is skipped, while the            *)
(* assignments made before it stay.                                        *)
(*                                                                         *)
(* JavaScript indices are kept: slots are 0..3.                            *)
(***************************************************************************)
EXTENDS Integers, Sequences, FiniteSets, TLC

(***************************************************************************)
(* Bounds of the model.                                                    *)
(***************************************************************************)
\* how many calls of the public setters the application makes
MaxCalls == 1
\* the same, in the geometry life cycle
MaxGeomCalls == 3
\* the last instant of the clock, in milliseconds
MaxTime == 4
\* calls of morph
MaxMorphs == 1
\* the largest heightmap a geometry is built from
MaxGridWidth == 2
MaxGridHeight == 2
\* how many of the options heightmap .. heightmap4 a constructor call gives
MaxOptionSlots == 2
\* how many times the application changes a heightmap before cleanUp
MaxFreeCalls == 2
\* how many calls of the public setters the application makes on entities
\* that differ in style
MaxStyleCalls == 3

Entities == {"e1", "e2"}
\* this.view and this.stencilView, in the order the model calls them
ViewNames == <<"view", "stencilView">>
\* heightmap files, and the size of the image each decodes to
Sources == {"a.png", "b.png"}
ImageWidth(src) == IF src = "a.png" THEN 2 ELSE 3
ImageHeight(src) == IF src = "a.png" THEN 2 ELSE 2
\* texture files
ImageSources == {"i.png", "j.png"}
\* values the application gives to setMaxHeight
MaxHeights == {100, 200}

NumSlots == 4
Slots == 0 .. (NumSlots - 1)
DefaultMaxHeight == 200
\* Image3D.GeometryStyle
GeometryStyles == {"smooth", "block", "float"}
\* the channel values of the pixels of the heightmaps that are built from
Levels == {0, 255}
\* the width and height of the texture image of a build
TextureImageWidth == 4
TextureImageHeight == 2
\* a style that Image3D.GeometryStyle does not list
OtherStyles == {"cone"}
\* the entities the application animates
\* the styles the application gives as the option geometryStyle
StyleOptions == {"smooth", "block", "cone"}
\* the entity whose heightmaps, maximum height and style the application sets
StyleEntities == {"e1"}
MorphEntities == {"e1"}
\* morph(index, seconds): the indices and the durations in milliseconds
MorphIndices == {0, 1, 2, NumSlots}
MorphMillis == {0 - 2, 0, 2}

(***************************************************************************)
(* JavaScript values.                                                      *)
(***************************************************************************)
Undefined == [kind |-> "undefined"]
Null == [kind |-> "null"]
Truthy(v) == v.kind \notin {"undefined", "null"}
\* the n-th Image object created for heightmap file src
ImageOf(src, n) == [kind |-> "image", src |-> src, n |-> n]
\* the pixel array getImageData returns in the load handler of image `by`,
\* after drawing image `image`
PixelsOf(image, by) == [kind |-> "pixels", image |-> image, by |-> by]
\* the object cache.get returns for a heightmap key (not its heightmapData)
EntryOf(key) == [kind |-> "entry", key |-> key]
\* the value JavaScript gives to a property that does not exist
UndefinedDim == 0 - 1
\* imageSrc_ = null; in a concatenation JavaScript writes it "null"
NullSrc == "null"

VARIABLES
  cache,        \* this.cache: key -> [value, refcount]
  ents,         \* the Image3D instances
  loadedImgs,   \* heightmap Image objects whose load event has fired
  pending,      \* load listeners of heightmap Images not yet fired
  texPending,   \* onload handlers of texture Images not yet fired
  decodes,      \* per heightmap file, the Image objects created for it
  errors,       \* kinds of fatal failures raised so far
  calls,        \* how many calls of each bounded API the application made
  hist,         \* history: what the handlers did (read by the properties)
  now,          \* the wall clock, in ms
  built         \* a geometry build on given pixel data: input and result

vars == <<cache, ents, loadedImgs, pending, texPending, decodes, errors,
          calls, hist, now, built>>

\* the state the handlers work on
State == [cache |-> cache, ents |-> ents, loadedImgs |-> loadedImgs,
          pending |-> pending, texPending |-> texPending,
          decodes |-> decodes, hist |-> hist, now |-> now, err |-> ""]

Ok(st) == st.err = ""
Fail(st, kind) == IF Ok(st) THEN [st EXCEPT !.err = kind] ELSE st

(***************************************************************************)
(* The content cache (this.cache).  Its code is not part of the sources;   *)
(* it is modelled from section 4.1 of the specification.                   *)
(***************************************************************************)
Has(st, key) == key \in DOMAIN st.cache

\* callers always check has first
Get(st, key) == st.cache[key].value

Set(st, key, value) ==
  IF ~Ok(st) THEN st
  ELSE IF Has(st, key) THEN Fail(st, "KeyCollision")
  ELSE [st EXCEPT !.cache =
          [k \in DOMAIN st.cache \cup {key} |->
             IF k = key THEN [value |-> value, refcount |-> 1]
             ELSE st.cache[k]]]

AddRef(st, key) ==
  IF ~Ok(st) THEN st
  ELSE IF ~Has(st, key) THEN Fail(st, "NotFound")
  ELSE [st EXCEPT !.cache[key].refcount = @ + 1]

\* at refcount 0 the entry is evicted; a geometry payload is disposed then
Release(st, key) ==
  IF ~Ok(st) THEN st
  ELSE IF ~Has(st, key) THEN Fail(st, "NotFound")
  ELSE IF st.cache[key].refcount > 1
       THEN [st EXCEPT !.cache[key].refcount = @ - 1]
       ELSE [st EXCEPT !.cache =
               [k \in DOMAIN st.cache \ {key} |-> st.cache[k]]]

(***************************************************************************)
(* History notes.                                                          *)
(***************************************************************************)
NoteTaken(st, e, key) ==
  IF Ok(st) /\ key \in Sources
  THEN [st EXCEPT !.hist.taken[e][key] = @ + 1] ELSE st

NoteReleased(st, e, key) ==
  IF Ok(st) /\ key \in Sources
  THEN [st EXCEPT !.hist.released[e][key] = @ + 1] ELSE st

(***************************************************************************)
(* Image3DView_                                                            *)
(***************************************************************************)
\* geometry.dispose() on the object a holder got from the cache under key
Dispose(st, key) ==
  IF Ok(st) /\ Has(st, key) /\ st.cache[key].value.kind = "geometry"
  THEN [st EXCEPT !.cache[key].value.disposed = TRUE,
                  !.hist.disposedHeld = TRUE]
  ELSE st

ViewDestroyMesh(st, e, v) ==
  IF ~Ok(st) THEN st ELSE
  LET view == st.ents[e].views[v]
      s1 == [st EXCEPT !.ents[e].views[v].mesh_ = FALSE,
                       !.ents[e].views[v].influences = Undefined]
  IN IF view.geometry_
     THEN LET s2 == Release(s1, view.geometryKey_)
              s3 == IF Ok(s2)
                    THEN Dispose([s2 EXCEPT
                           !.ents[e].views[v].geometryKey_ = NullSrc],
                           view.geometryKey_)
                    ELSE s2
          IN IF Ok(s3)
             THEN [s3 EXCEPT !.ents[e].views[v].geometry_ = FALSE]
             ELSE s3
     ELSE s1

\* the geometry the view's createGeometry_ wraps around the model's arrays
ViewGeometry(key) == [kind |-> "geometry", key |-> key, disposed |-> FALSE]

\* a view that takes the cached geometry without a reference of its own
ViewCreateGeometryNoRef(st, e, v) ==
  IF ~Ok(st) THEN st
  ELSE IF ~st.ents[e].geometry_ THEN Fail(st, "AssertModelGeometry")
  ELSE LET geometryKey == st.ents[e].geometryKey_ IN
       IF Has(st, geometryKey)
       THEN [st EXCEPT !.ents[e].views[v].geometryKey_ = geometryKey]
       ELSE LET s1 == Set(st, geometryKey, ViewGeometry(geometryKey))
            IN IF Ok(s1)
               THEN [s1 EXCEPT !.ents[e].views[v].geometryKey_ = geometryKey]
               ELSE s1

ViewCreateGeometry(st, e, v) ==
  IF ~Ok(st) THEN st
  ELSE IF ~st.ents[e].geometry_ THEN Fail(st, "AssertModelGeometry")
  ELSE LET geometryKey == st.ents[e].geometryKey_ IN
       IF Has(st, geometryKey)
       THEN AddRef([st EXCEPT !.ents[e].views[v].geometryKey_ = geometryKey],
                   geometryKey)
       ELSE LET s1 == Set(st, geometryKey, ViewGeometry(geometryKey))
            IN IF Ok(s1)
               THEN [s1 EXCEPT !.ents[e].views[v].geometryKey_ = geometryKey]
               ELSE s1

ViewCreateMesh(st, e, v) ==
  IF ~Ok(st) THEN st
  ELSE IF ~st.ents[e].views[v].texture_ THEN st
  ELSE LET s1 == ViewCreateGeometry(st, e, v)
       IN IF Ok(s1)
          THEN [s1 EXCEPT !.ents[e].views[v].geometry_ = TRUE,
                          !.ents[e].views[v].mesh_ = TRUE,
                          !.ents[e].views[v].influences =
                              s1.ents[e].currentMorphTargets_,
                          !.ents[e].views[v].loaded = TRUE]
          ELSE s1

ViewRebuildMesh(st, e, v) ==
  IF ~Ok(st) THEN st
  ELSE ViewCreateMesh(IF st.ents[e].views[v].mesh_
                      THEN ViewDestroyMesh(st, e, v) ELSE st, e, v)

ViewSetImage(st, e, v) ==
  IF ~Ok(st) THEN st
  ELSE IF ~st.ents[e].image_ THEN Fail(st, "AssertImage")
  ELSE IF st.ents[e].imageSrc_ = NullSrc THEN Fail(st, "AssertImageSrc")
  ELSE ViewRebuildMesh([st EXCEPT !.ents[e].views[v].texture_ = TRUE], e, v)

ViewSetMorphTargetInfluences(st, e, v, influences) ==
  IF Ok(st) /\ st.ents[e].views[v].mesh_
  THEN [st EXCEPT !.ents[e].views[v].influences = influences]
  ELSE st

ViewUnload(st, e, v) ==
  LET s1 == ViewDestroyMesh(st, e, v)
  IN IF Ok(s1) THEN [s1 EXCEPT !.ents[e].views[v].texture_ = FALSE] ELSE s1

(***************************************************************************)
(* Image3D: the geometry of the model                                      *)
(***************************************************************************)
GeometryKey(ent) ==
  "imageSrc: " \o ent.imageSrc_ \o ", "
  \o "heightSrc1: " \o ent.heightSources_[0] \o ", "
  \o "heightSrc2: " \o ent.heightSources_[1] \o ", "
  \o "heightSrc3: " \o ent.heightSources_[2] \o ", "
  \o "heightSrc4: " \o ent.heightSources_[3] \o ", "
  \o "maxHeight: " \o ToString(ent.maxHeight_) \o ", "
  \o "geometryStyle: " \o ent.geometryStyle_
  \o " (geometry)"

\* the width and height a pixel array was read with
PixelsWidth(data) == ImageWidth(data.image.src)
PixelsHeight(data) == ImageHeight(data.image.src)

\* two populated slots hold pixel arrays of different sizes
MismatchedBuffers(ent) ==
  \E i, j \in Slots :
     /\ ent.heightmapData_[i].kind = "pixels"
     /\ ent.heightmapData_[j].kind = "pixels"
     /\ \/ PixelsWidth(ent.heightmapData_[i]) # PixelsWidth(ent.heightmapData_[j])
        \/ PixelsHeight(ent.heightmapData_[i]) # PixelsHeight(ent.heightmapData_[j])

\* createHeightmapGeometry_(data, ...): the style algorithm runs on data
CreateHeightmapGeometry(st, data) ==
  IF ~Ok(st) THEN st
  ELSE IF ~Truthy(data) THEN Fail(st, "AssertData")
  ELSE st

RECURSIVE MorphTargetLoop(_, _, _)
MorphTargetLoop(st, e, i) ==
  IF ~Ok(st) \/ i >= NumSlots THEN st
  ELSE MorphTargetLoop(
         IF ~Truthy(st.ents[e].heightmaps_[i]) \/ i = 0 THEN st
         ELSE CreateHeightmapGeometry(st, st.ents[e].heightmapData_[i]),
         e, i + 1)

\* slot i of the entity has a source and not the pixel array of that source
PendingSlot(ent, i) ==
  /\ ent.heightSources_[i] # ""
  /\ ~(ent.heightmapData_[i].kind = "pixels"
       /\ ent.heightmapData_[i].image.src = ent.heightSources_[i])

\* what a geometry stored under the key was built from: the sources the key
\* names and the pixel arrays createGeometry_ read, slot by slot
BuiltFrom(ent, key) ==
  [key |-> key,
   sources |-> ent.heightSources_,
   data |-> [i \in Slots |->
               IF i = 0 \/ Truthy(ent.heightmaps_[i])
               THEN ent.heightmapData_[i] ELSE Undefined]]

\* a build that accepts the block style with any number of heightmaps
CreateGeometryAnyBlock(st, e) ==
  IF ~Ok(st) THEN st ELSE
  LET key == GeometryKey(st.ents[e])
      s0 == [st EXCEPT !.ents[e].geometryKey_ = key,
                       !.hist.pendingBuild =
                           @ \/ \E i \in Slots : PendingSlot(st.ents[e], i)]
  IN IF Has(s0, key)
     THEN LET s1 == AddRef(s0, key)
          IN IF Ok(s1) THEN [s1 EXCEPT !.ents[e].geometry_ = TRUE] ELSE s1
     ELSE LET ent == s0.ents[e]
              s1 == CreateHeightmapGeometry(
                      [s0 EXCEPT !.hist.builds = @ + 1,
                                 !.hist.mismatchBuild =
                                     @ \/ MismatchedBuffers(ent)],
                      ent.heightmapData_[0])
              s3 == MorphTargetLoop(s1, e, 0)
              s4 == IF Ok(s3)
                    THEN [s3 EXCEPT !.ents[e].geometry_ = TRUE] ELSE s3
              s5 == Set(s4, key, [kind |-> "geometry", key |-> key,
                                  disposed |-> FALSE])
          IN IF Ok(s5)
             THEN [s5 EXCEPT !.hist.stored = @ \cup {BuiltFrom(ent, key)}]
             ELSE s5

CreateGeometry(st, e) ==
  IF ~Ok(st) THEN st ELSE
  LET key == GeometryKey(st.ents[e])
      s0 == [st EXCEPT !.ents[e].geometryKey_ = key,
                       !.hist.pendingBuild =
                           @ \/ \E i \in Slots : PendingSlot(st.ents[e], i)]
  IN IF Has(s0, key)
     THEN LET s1 == AddRef(s0, key)
          IN IF Ok(s1) THEN [s1 EXCEPT !.ents[e].geometry_ = TRUE] ELSE s1
     ELSE LET ent == s0.ents[e]
              numValidHeightmaps ==
                Cardinality({i \in Slots : Truthy(ent.heightmaps_[i])})
              s1 == CreateHeightmapGeometry(
                      [s0 EXCEPT !.hist.builds = @ + 1,
                                 !.hist.mismatchBuild =
                                     @ \/ MismatchedBuffers(ent)],
                      ent.heightmapData_[0])
              s2 == IF numValidHeightmaps <= 1 \/ ent.geometryStyle_ # "block"
                    THEN s1 ELSE Fail(s1, "AssertBlock")
              s3 == MorphTargetLoop(s2, e, 0)
              s4 == IF Ok(s3)
                    THEN [s3 EXCEPT !.ents[e].geometry_ = TRUE] ELSE s3
              s5 == Set(s4, key, [kind |-> "geometry", key |-> key,
                                  disposed |-> FALSE])
          IN IF Ok(s5)
             THEN [s5 EXCEPT !.hist.stored = @ \cup {BuiltFrom(ent, key)}]
             ELSE s5

DestroyGeometry(st, e) ==
  IF ~Ok(st) THEN st
  ELSE IF st.ents[e].geometry_
  THEN LET key == st.ents[e].geometryKey_
           s1 == Release(st, key)
           s2 == IF Ok(s1)
                 THEN Dispose([s1 EXCEPT !.ents[e].geometryKey_ = ""], key)
                 ELSE s1
       IN IF Ok(s2) THEN [s2 EXCEPT !.ents[e].geometry_ = FALSE] ELSE s2
  ELSE st

RECURSIVE RebuildMeshes(_, _, _)
RebuildMeshes(st, e, n) ==
  IF ~Ok(st) \/ n > Len(ViewNames) THEN st
  ELSE RebuildMeshes(ViewRebuildMesh(st, e, ViewNames[n]), e, n + 1)

RebuildGeometry(st, e) ==
  IF ~Ok(st) THEN st
  ELSE IF ~st.ents[e].image_ THEN st
  ELSE RebuildMeshes(CreateGeometry(DestroyGeometry(st, e), e), e, 1)

SetImageSrc(st, e, imageSrc) ==
  IF ~Ok(st) THEN st
  ELSE IF imageSrc = "" \/ imageSrc = NullSrc THEN Fail(st, "AssertImageSrc")
  ELSE IF st.ents[e].imageSrc_ = imageSrc THEN st
  ELSE [st EXCEPT !.ents[e].imageSrc_ = imageSrc,
                  !.ents[e].elementSrc = imageSrc,
                  !.ents[e].image_ = TRUE,
                  !.texPending = @ \cup {[ent |-> e, src |-> imageSrc]}]

RECURSIVE SetImages(_, _, _)
SetImages(st, e, n) ==
  IF ~Ok(st) \/ n > Len(ViewNames) THEN st
  ELSE SetImages(ViewSetImage(st, e, ViewNames[n]), e, n + 1)

\* the onload handler setImageSrc puts on the texture Image
ImageOnLoad(st, e) == SetImages(RebuildGeometry(st, e), e, 1)

SetMaxHeight(st, e, maxHeight) ==
  IF ~Ok(st) THEN st
  ELSE IF maxHeight < 0 THEN Fail(st, "AssertMaxHeight")
  ELSE IF st.ents[e].maxHeight_ # maxHeight
  THEN RebuildGeometry([st EXCEPT !.ents[e].maxHeight_ = maxHeight], e)
  ELSE st

SetGeometryStyle(st, e, geometryStyle) ==
  IF ~Ok(st) THEN st
  ELSE IF geometryStyle \notin GeometryStyles
  THEN Fail(st, "AssertGeometryStyle")
  ELSE IF st.ents[e].geometryStyle_ # geometryStyle
  THEN RebuildGeometry([st EXCEPT !.ents[e].geometryStyle_ = geometryStyle],
                       e)
  ELSE st

TearDownViews(st, e) == DestroyGeometry(st, e)

(***************************************************************************)
(* Image3D: the heightmap load coordinator                                 *)
(***************************************************************************)
\* heightmap.width / heightmap.height of a slot's heightmaps_ value: an Image
\* has its natural size once loaded and 0 before; the object cache.get
\* returns has no such property
WidthOf(st, heightmap) ==
  IF heightmap.kind = "image"
  THEN IF heightmap \in st.loadedImgs THEN ImageWidth(heightmap.src) ELSE 0
  ELSE UndefinedDim

HeightOf(st, heightmap) ==
  IF heightmap.kind = "image"
  THEN IF heightmap \in st.loadedImgs THEN ImageHeight(heightmap.src) ELSE 0
  ELSE UndefinedDim

\* a free that leaves the key in the slot
FreeHeightmapKeepsKey(st, e, index) ==
  IF ~Ok(st) THEN st ELSE
  LET key == st.ents[e].heightmapKeys_[index]
  IN IF key # ""
     THEN NoteReleased(Release(st, key), e, key)
     ELSE st

FreeHeightmap(st, e, index) ==
  IF ~Ok(st) THEN st ELSE
  LET key == st.ents[e].heightmapKeys_[index]
  IN IF key # ""
     THEN LET s1 == NoteReleased(Release(st, key), e, key)
          IN IF Ok(s1)
             THEN [s1 EXCEPT !.ents[e].heightmapKeys_[index] = ""]
             ELSE s1
     ELSE st

\* the callback setUpViews gives to loadHeightmaps_
SetUpViewsCallback(st, e) ==
  IF ~Ok(st) THEN st
  ELSE LET src == st.ents[e].imageSrc_
       IN SetImageSrc([st EXCEPT !.ents[e].imageSrc_ = NullSrc,
                                 !.ents[e].completions = @ + 1],
                      e, src)

\* onLoad(index) of loadHeightmaps_; numLoaded and numToLoad are the
\* variables of the one loadHeightmaps_ call an entity makes
LoadHeightmapsOnLoad(st, e, index) ==
  IF ~Ok(st) THEN st ELSE
  LET ent == st.ents[e]
      heightmap == ent.heightmaps_[index]
  IN IF heightmap.kind = "undefined" THEN Fail(st, "TypeError")
     ELSE
     LET s1 == IF ent.numLoaded = 0
               THEN [st EXCEPT
                       !.ents[e].heightmapWidth_ = WidthOf(st, heightmap),
                       !.ents[e].heightmapHeight_ = HeightOf(st, heightmap)]
               ELSE IF /\ ent.heightmapWidth_ = WidthOf(st, heightmap)
                       /\ ent.heightmapHeight_ = HeightOf(st, heightmap)
                    THEN st
                    ELSE Fail(st, "AssertSameSize")
         s2 == IF Ok(s1) THEN [s1 EXCEPT !.ents[e].numLoaded = @ + 1] ELSE s1
     IN IF Ok(s2) /\ s2.ents[e].numLoaded = s2.ents[e].numToLoad
        THEN SetUpViewsCallback(s2, e)
        ELSE s2

\* a callback given to loadHeightmap_: onLoad.bind(this, i) of
\* loadHeightmaps_, or the function setHeightmap passes
LoadAllCallback(e, index) ==
  [kind |-> "loadHeightmaps", ent |-> e, index |-> index]
SetHeightmapCallback(e, index) ==
  [kind |-> "setHeightmap", ent |-> e, index |-> index]

RunCallback(st, callback) ==
  IF ~Ok(st) THEN st ELSE
  LET s1 == [st EXCEPT !.hist.slotCb[callback.ent][callback.index] = @ + 1]
  IN IF callback.kind = "loadHeightmaps"
     THEN LoadHeightmapsOnLoad(s1, callback.ent, callback.index)
     ELSE RebuildGeometry(s1, callback.ent)

\* the function loadHeightmap_ pushes on the notifiers of a pending entry
InvokeNotifier(st, notifier, data) ==
  IF ~Ok(st) THEN st
  ELSE RunCallback(
         [st EXCEPT
            !.hist.notified[notifier.id] = @ + 1,
            !.ents[notifier.ent].heightmapData_[notifier.index] = data],
         notifier.callback)

RECURSIVE InvokeNotifiers(_, _, _, _)
InvokeNotifiers(st, notifiers, i, data) ==
  IF ~Ok(st) \/ i > Len(notifiers) THEN st
  ELSE InvokeNotifiers(InvokeNotifier(st, notifiers[i], data),
                       notifiers, i + 1, data)

\* onLoad(index, heightmapKey) of loadHeightmap_, the load listener of the
\* Image `image`; callback is the callback of the loadHeightmap_ call
OnLoad(st, image, e, index, heightmapKey, callback) ==
  IF ~Ok(st) THEN st ELSE
  LET heightmap == st.ents[e].heightmaps_[index]
  IN \* heightmap.width of undefined; drawImage of an object that is no image
     IF heightmap.kind # "image" THEN Fail(st, "TypeError")
     \* getImageData of a 0 x 0 rectangle
     ELSE IF WidthOf(st, heightmap) = 0 \/ HeightOf(st, heightmap) = 0
     THEN Fail(st, "IndexSizeError")
     ELSE
     LET heightmapData == PixelsOf(heightmap, image)
         s1 == [st EXCEPT
                  !.ents[e].heightmapData_[index] = heightmapData,
                  !.ents[e].heightmapKeys_[index] = heightmapKey]
         notifiers == IF Has(s1, heightmapKey)
                      THEN Get(s1, heightmapKey).notifiers ELSE <<>>
         s2 == IF Has(s1, heightmapKey)
               THEN NoteTaken(AddRef(s1, heightmapKey), e, heightmapKey)
               ELSE s1
         s3 == Set([s2 EXCEPT
                      !.hist.published =
                          @ \cup {[key |-> heightmapKey,
                                   data |-> heightmapData]}],
                   heightmapKey,
                   [kind |-> "heightmap", heightmap |-> heightmap,
                    heightmapData |-> heightmapData, notifiers |-> <<>>])
         s4 == IF Ok(s3) /\ ~Has(s2, heightmapKey)
               THEN NoteTaken(s3, e, heightmapKey) ELSE s3
     IN RunCallback(InvokeNotifiers(s4, notifiers, 1, heightmapData),
                    callback)

LoadHeightmap(st, e, heightmapSrc, index, callback) ==
  IF ~Ok(st) THEN st
  ELSE IF index < 0 \/ index >= NumSlots THEN Fail(st, "AssertIndex")
  ELSE IF heightmapSrc = "" THEN st
  ELSE
  LET s1 == FreeHeightmap(st, e, index)
      heightmapKey == heightmapSrc
  IN IF ~Ok(s1) THEN s1
     ELSE IF Has(s1, heightmapKey)
     THEN \* Case 1: the heightmap exists in the cache
       LET s2 == NoteTaken(AddRef(s1, heightmapKey), e, heightmapKey)
           cacheVal == Get(s2, heightmapKey)
       IN IF ~Truthy(cacheVal.heightmapData)
          THEN \* not finished loading
            [s2 EXCEPT
               !.ents[e].heightmaps_[index] = cacheVal.heightmap,
               !.cache[heightmapKey].value.notifiers =
                   Append(@, [ent |-> e, index |-> index,
                              callback |-> callback,
                              id |-> Len(s2.hist.notified) + 1]),
               !.hist.notified = Append(@, 0),
               !.hist.registered =
                   Append(@, [ent |-> e, index |-> index,
                              key |-> heightmapKey,
                              image |-> cacheVal.heightmap])]
          ELSE \* fully loaded
            RunCallback(
              [s2 EXCEPT
                 !.ents[e].heightmaps_[index] = EntryOf(heightmapKey),
                 !.ents[e].heightmapData_[index] = EntryOf(heightmapKey),
                 !.hist.hits = @ \cup {[ent |-> e, index |-> index,
                                        key |-> heightmapKey]}],
              callback)
     ELSE \* Case 2: the heightmap does not exist in the cache yet
       LET heightmap == ImageOf(heightmapSrc, s1.decodes[heightmapSrc] + 1)
           s2 == [s1 EXCEPT
                    !.decodes[heightmapSrc] = @ + 1,
                    !.hist.started = @ \cup {[image |-> heightmap, ent |-> e,
                                              index |-> index]},
                    !.pending = @ \cup {[image |-> heightmap, ent |-> e,
                                         index |-> index,
                                         key |-> heightmapKey,
                                         callback |-> callback]}]
           s3 == NoteTaken(
                   Set(s2, heightmapKey,
                       [kind |-> "heightmap", heightmap |-> heightmap,
                        heightmapData |-> Null, notifiers |-> <<>>]),
                   e, heightmapKey)
       IN IF Ok(s3)
          THEN [s3 EXCEPT !.ents[e].heightmaps_[index] = heightmap]
          ELSE s3

RECURSIVE LoadLoop(_, _, _)
LoadLoop(st, e, i) ==
  IF ~Ok(st) \/ i >= NumSlots THEN st
  ELSE LoadLoop(LoadHeightmap(st, e, st.ents[e].heightSources_[i], i,
                              LoadAllCallback(e, i)),
                e, i + 1)

LoadHeightmaps(st, e) ==
  IF ~Ok(st) THEN st ELSE
  LET ent == st.ents[e]
  IN LoadLoop(
       [st EXCEPT
          !.ents[e].heightmapWidth_ = 0,
          !.ents[e].heightmapHeight_ = 0,
          !.ents[e].numLoaded = 0,
          !.ents[e].numToLoad =
              Cardinality({i \in Slots : ent.heightSources_[i] # ""}),
          !.ents[e].heightmaps_ = [i \in Slots |-> Undefined],
          !.ents[e].heightmapData_ = [i \in Slots |-> Undefined]],
       e, 0)

SetUpViews(st, e) == LoadHeightmaps(st, e)

SetHeightmap(st, e, heightmap, opt_index) ==
  IF ~Ok(st) THEN st
  ELSE IF heightmap = "" THEN Fail(st, "AssertHeightmap")
  ELSE LET index == opt_index - 1
       IN IF st.ents[e].heightSources_[index] = heightmap THEN st
          ELSE LoadHeightmap(
                 [st EXCEPT !.ents[e].heightSources_[index] = heightmap],
                 e, heightmap, index, SetHeightmapCallback(e, index))

RECURSIVE FreeLoop(_, _, _)
FreeLoop(st, e, i) ==
  IF ~Ok(st) \/ i >= NumSlots THEN st
  ELSE FreeLoop(FreeHeightmap(st, e, i), e, i + 1)

CleanUp(st, e) == FreeLoop(st, e, 0)

(***************************************************************************)
(* Image3D: the morph animator.  Weights are JavaScript numbers; the model *)
(* keeps them as exact fractions [n, d], and NaN as the fraction 0/0.      *)
(* Times are whole milliseconds.                                           *)
(***************************************************************************)
RECURSIVE GCD(_, _)
GCD(a, b) == IF b = 0 THEN a ELSE GCD(b, a % b)
Abs(x) == IF x < 0 THEN 0 - x ELSE x

NaN == [n |-> 0, d |-> 0]
IsNaN(x) == x.d = 0
Frac(n, d) ==
  IF d = 0 THEN NaN
  ELSE LET g == GCD(Abs(n), Abs(d))
           sgn == IF d < 0 THEN 0 - 1 ELSE 1
       IN [n |-> sgn * (n \div g), d |-> sgn * (d \div g)]
Num(k) == [n |-> k, d |-> 1]
Plus(x, y) ==
  IF IsNaN(x) \/ IsNaN(y) THEN NaN
  ELSE Frac(x.n * y.d + y.n * x.d, x.d * y.d)
Times(x, y) ==
  IF IsNaN(x) \/ IsNaN(y) THEN NaN ELSE Frac(x.n * y.n, x.d * y.d)

\* [0, 0, 0, 0] with morphTargetInfluences[index - 1] = 1; an assignment to
\* the property -1 of an array adds no element
MorphTargetInfluences(index) ==
  [i \in Slots |-> IF i = index - 1 THEN Num(1) ELSE Num(0)]

\* this.loaded of the model: its views have created their meshes
Loaded(ent) == \A n \in 1 .. Len(ViewNames) : ent.views[ViewNames[n]].loaded

RECURSIVE SetInfluences(_, _, _, _)
SetInfluences(st, e, n, influences) ==
  IF ~Ok(st) \/ n > Len(ViewNames) THEN st
  ELSE SetInfluences(
         ViewSetMorphTargetInfluences(st, e, ViewNames[n], influences),
         e, n + 1, influences)

\* time > 1, for time = duration / morphDuration_ as JavaScript divides:
\* x / 0 is Infinity for x > 0 and NaN for x = 0, and NaN > 1 is false
TimeOver(duration, morphDuration) ==
  IF morphDuration = 0 THEN duration > 0 ELSE duration > morphDuration

\* startMorphTargets_[i] * invTime + endMorphTargets_[i] * time
Lerp(start, end, duration, morphDuration) ==
  LET time == Frac(duration, morphDuration)
      invTime == Plus(Num(1), Times(Num(0 - 1), time))
  IN [i \in Slots |-> Plus(Times(start[i], invTime), Times(end[i], time))]

\* the morph part of update
UpdateMorph(st, e) ==
  IF ~Ok(st) THEN st ELSE
  LET ent == st.ents[e]
      duration == st.now - ent.morphStartTime_
  IN IF ~ent.morphing_ THEN st
     ELSE IF TimeOver(duration, ent.morphDuration_)
     THEN LET s1 == SetInfluences(
                      [st EXCEPT !.ents[e].morphing_ = FALSE,
                                 !.ents[e].morphDuration_ = 0,
                                 !.ents[e].morphElapsed_ = 0],
                      e, 1, ent.endMorphTargets_)
          IN IF Ok(s1)
             THEN [s1 EXCEPT
                     !.ents[e].currentMorphTargets_ = ent.endMorphTargets_,
                     !.ents[e].startMorphTargets_ = ent.endMorphTargets_,
                     !.ents[e].morphEnd = @ + 1]
             ELSE s1
     ELSE LET current == Lerp(ent.startMorphTargets_, ent.endMorphTargets_,
                              duration, ent.morphDuration_)
          IN SetInfluences(
               [st EXCEPT !.ents[e].currentMorphTargets_ = current],
               e, 1, current)

Update(st, e) ==
  IF ~Ok(st) THEN st
  ELSE IF ~Loaded(st.ents[e]) THEN st
  ELSE UpdateMorph(
         IF st.ents[e].elementSrc # st.ents[e].imageSrc_
         THEN SetImageSrc(st, e, st.ents[e].elementSrc) ELSE st,
         e)

\* morph(index, seconds) with seconds = ms / 1000
Morph(st, e, index, ms) ==
  IF ~Ok(st) THEN st
  ELSE IF ~(index >= 0 /\ index < 4) THEN Fail(st, "AssertIndex")
  ELSE
  LET morphTargetInfluences == MorphTargetInfluences(index)
  IN IF ms > 0
     THEN [st EXCEPT
             !.ents[e].startMorphTargets_ = st.ents[e].currentMorphTargets_,
             !.ents[e].endMorphTargets_ = morphTargetInfluences,
             !.ents[e].morphDuration_ = ms,
             !.ents[e].morphStartTime_ = st.now,
             !.ents[e].morphElapsed_ = 0,
             !.ents[e].morphing_ = TRUE,
             !.ents[e].morphBegin = @ + 1]
     ELSE SetInfluences(
            [st EXCEPT
               !.ents[e].startMorphTargets_ = morphTargetInfluences,
               !.ents[e].endMorphTargets_ = morphTargetInfluences,
               !.ents[e].currentMorphTargets_ = morphTargetInfluences,
               !.ents[e].morphing_ = FALSE,
               !.ents[e].morphDuration_ = 0,
               !.ents[e].morphElapsed_ = 0],
            e, 1, morphTargetInfluences)

\* setMorphing whose resume starts the transition over
SetMorphingRestarts(st, e, morphing) ==
  IF ~Ok(st) THEN st
  ELSE IF ~morphing /\ st.ents[e].morphing_
  THEN [st EXCEPT !.ents[e].morphing_ = FALSE,
                  !.ents[e].morphElapsed_ =
                      st.now - st.ents[e].morphStartTime_]
  ELSE IF morphing /\ ~st.ents[e].morphing_
  THEN [st EXCEPT !.ents[e].morphing_ = TRUE,
                  !.ents[e].morphStartTime_ = st.now]
  ELSE st

SetMorphing(st, e, morphing) ==
  IF ~Ok(st) THEN st
  ELSE IF ~morphing /\ st.ents[e].morphing_
  THEN [st EXCEPT !.ents[e].morphing_ = FALSE,
                  !.ents[e].morphElapsed_ =
                      st.now - st.ents[e].morphStartTime_]
  ELSE IF morphing /\ ~st.ents[e].morphing_
  THEN [st EXCEPT !.ents[e].morphing_ = TRUE,
                  !.ents[e].morphStartTime_ =
                      st.now - st.ents[e].morphElapsed_]
  ELSE st

(***************************************************************************)
(* Image3D: the geometry builders, as functions of the pixel data          *)
(***************************************************************************)
\* x > y as JavaScript compares numbers: false when one of them is NaN
Gt(x, y) == ~IsNaN(x) /\ ~IsNaN(y) /\ x.n * y.d > y.n * x.d

\* getDepth_(data, i): (r + g + b) / 3.0 / 255.0 * maxHeight_, as an exact
\* quotient; an index outside the pixel array reads undefined and gives NaN
GetDepth(self, data, i) ==
  IF {i, i + 1, i + 2} \subseteq DOMAIN data
  THEN Frac((data[i] + data[i + 1] + data[i + 2]) * self.maxHeight_, 3 * 255)
  ELSE NaN

\* new THREE.Geometry()
NewGeometry ==
  [vertices |-> <<>>, faces |-> <<>>, faceVertexUvs |-> <<>>,
   morphTargets |-> <<>>]

\* what a style algorithm writes: the vertices, the object it puts them on
\* (verticesOwner or geometry), and the faces and UVs when it creates them
NoWrites ==
  [vertices |-> <<>>, on |-> "none", faces |-> <<>>, faceVertexUvs |-> <<>>,
   createFaces |-> FALSE]

\* a smooth style that makes one triangle per grid cell
CreateSmoothGeometryHalf(self, data, createFaces) ==
  LET width == self.heightmapWidth_
      height == self.heightmapHeight_
      vertices ==
        [k \in 1 .. (width * height) |->
           <<Frac((k - 1) % width, width - 1),
             Frac((k - 1) \div width, height - 1),
             GetDepth(self, data, 4 * (k - 1))>>]
      faces ==
        [f \in 1 .. ((width - 1) * (height - 1)) |->
           LET x == (f - 1) % (width - 1)
               yi == ((f - 1) \div (width - 1)) * width
           IN <<yi + x, yi + x + 1, yi + width + x + 1>>]
  IN [vertices |-> vertices, on |-> "verticesOwner",
      faces |-> IF createFaces THEN faces ELSE <<>>,
      faceVertexUvs |-> <<>>,
      createFaces |-> createFaces]

\* createSmoothGeometry_(geometry, verticesOwner, data, createFaces);
\* x * invWidthMinusOne is the exact quotient x / (width - 1)
CreateSmoothGeometry(self, data, createFaces) ==
  LET width == self.heightmapWidth_
      height == self.heightmapHeight_
      numVertices == width * height
      numFaces == (width - 1) * (height - 1) * 2
      vertices ==
        [k \in 1 .. numVertices |->
           LET x == (k - 1) % width
               y == (k - 1) \div width
           IN <<Frac(x, width - 1), Frac(y, height - 1),
                GetDepth(self, data, 4 * (k - 1))>>]
      faces ==
        [f \in 1 .. numFaces |->
           LET cell == (f - 1) \div 2
               x == cell % (width - 1)
               y == cell \div (width - 1)
               yi == y * width
               yi2 == yi + width
               x2 == x + 1
           IN IF (f - 1) % 2 = 0
              THEN <<yi + x, yi + x2, yi2 + x2>>
              ELSE <<yi + x, yi2 + x2, yi2 + x>>]
      uvs ==
        [f \in 1 .. numFaces |->
           LET cell == (f - 1) \div 2
               x == cell % (width - 1)
               y == cell \div (width - 1)
               u1 == Frac(x, width - 1)
               u2 == Frac(x + 1, width - 1)
               v1 == Frac(y, height - 1)
               v2 == Frac(y + 1, height - 1)
           IN IF (f - 1) % 2 = 0
              THEN <<(<<u1, v1>>), (<<u2, v1>>), (<<u2, v2>>)>>
              ELSE <<(<<u1, v1>>), (<<u2, v2>>), (<<u1, v2>>)>>]
  IN [vertices |-> vertices, on |-> "verticesOwner",
      faces |-> IF createFaces THEN faces ELSE <<>>,
      faceVertexUvs |-> IF createFaces THEN uvs ELSE <<>>,
      createFaces |-> createFaces]

\* the texture coordinates of the texel (x, y) in the block and float
\* styles, as exact quotients:
\*   u1 = (x * widthRatio + 0.5) * invTextureWidth,
\*   u2 = (x * widthRatio + widthRatio - 0.5) * invTextureWidth,
\* with widthRatio = textureImageWidth / width, and v1, v2 alike
TexelUvs(self, x, y) ==
  LET tw == self.textureImageWidth
      th == self.textureImageHeight
      w == self.heightmapWidth_
      h == self.heightmapHeight_
  IN [u1 |-> Frac(2 * x * tw + w, 2 * w * tw),
      u2 |-> Frac(2 * (x + 1) * tw - w, 2 * w * tw),
      v1 |-> Frac(2 * y * th + h, 2 * h * th),
      v2 |-> Frac(2 * (y + 1) * th - h, 2 * h * th)]

\* the four corners of the texel (x, y) at a depth: x1 = x * invWidth,
\* x2 = (x + 1) * invWidth, y1 = y * invHeight, y2 = (y + 1) * invHeight
TexelCorners(self, x, y, depth) ==
  LET x1 == Frac(x, self.heightmapWidth_)
      x2 == Frac(x + 1, self.heightmapWidth_)
      y1 == Frac(y, self.heightmapHeight_)
      y2 == Frac(y + 1, self.heightmapHeight_)
  IN <<(<<x1, y1, depth>>), (<<x2, y1, depth>>), (<<x2, y2, depth>>),
       (<<x1, y2, depth>>)>>

\* createFloatGeometry_(geometry, verticesOwner, data, createFaces)
CreateFloatGeometry(self, data, createFaces) ==
  LET width == self.heightmapWidth_
      height == self.heightmapHeight_
      numVertices == width * height * 4
      numFaces == width * height * 2
      vertices ==
        [k \in 1 .. numVertices |->
           LET texel == (k - 1) \div 4
           IN TexelCorners(self, texel % width, texel \div width,
                           GetDepth(self, data, 4 * texel))[((k - 1) % 4) + 1]]
      faces ==
        [f \in 1 .. numFaces |->
           LET i == 4 * ((f - 1) \div 2)
           IN IF (f - 1) % 2 = 0 THEN <<i, i + 1, i + 2>>
              ELSE <<i, i + 2, i + 3>>]
      uvs ==
        [f \in 1 .. numFaces |->
           LET texel == (f - 1) \div 2
               t == TexelUvs(self, texel % width, texel \div width)
           IN IF (f - 1) % 2 = 0
              THEN <<(<<t.u1, t.v1>>), (<<t.u2, t.v1>>), (<<t.u2, t.v2>>)>>
              ELSE <<(<<t.u1, t.v1>>), (<<t.u2, t.v2>>), (<<t.u1, t.v2>>)>>]
  IN [vertices |-> vertices, on |-> "verticesOwner",
      faces |-> IF createFaces THEN faces ELSE <<>>,
      faceVertexUvs |-> IF createFaces THEN uvs ELSE <<>>,
      createFaces |-> createFaces]

\* the depth of the texel (x, y) for its neighbours: 0 outside the grid
DepthAt(self, data, x, y) ==
  IF x < 0 \/ y < 0 \/ x > self.heightmapWidth_ - 1
     \/ y > self.heightmapHeight_ - 1
  THEN Num(0)
  ELSE GetDepth(self, data, 4 * (y * self.heightmapWidth_ + x))

\* side quads also towards neighbours of the same depth
BlockSidesOrEqual(self, data, x, y) ==
  LET depth == DepthAt(self, data, x, y)
  IN <<~Gt(DepthAt(self, data, x - 1, y), depth),
       ~Gt(DepthAt(self, data, x + 1, y), depth),
       ~Gt(DepthAt(self, data, x, y - 1), depth),
       ~Gt(DepthAt(self, data, x, y + 1), depth)>>

\* which side quads the texel (x, y) gets, in the order of the code: left,
\* right, top, bottom
BlockSides(self, data, x, y) ==
  LET depth == DepthAt(self, data, x, y)
  IN <<Gt(depth, DepthAt(self, data, x - 1, y)),
       Gt(depth, DepthAt(self, data, x + 1, y)),
       Gt(depth, DepthAt(self, data, x, y - 1)),
       Gt(depth, DepthAt(self, data, x, y + 1))>>

\* how many of the first n side quads of a texel are emitted
SidesAmong(sides, n) == Cardinality({m \in 1 .. n : sides[m]})

\* how many side quads the texels before texel k have
RECURSIVE SidesBefore(_, _, _)
SidesBefore(self, data, k) ==
  IF k = 0 THEN 0
  ELSE SidesAmong(BlockSides(self, data, (k - 1) % self.heightmapWidth_,
                             (k - 1) \div self.heightmapWidth_), 4)
       + SidesBefore(self, data, k - 1)

\* the elements of the pairs whose side quad is emitted, in order
RECURSIVE SelectSides(_, _, _)
SelectSides(sides, pairs, m) ==
  IF m > 4 THEN <<>>
  ELSE (IF sides[m] THEN pairs[m] ELSE <<>>)
       \o SelectSides(sides, pairs, m + 1)

\* the vertices of the texel (x, y): the front quad and two per side quad
BlockTexelVertices(self, data, x, y) ==
  LET depth == DepthAt(self, data, x, y)
      depthLeft == DepthAt(self, data, x - 1, y)
      depthRight == DepthAt(self, data, x + 1, y)
      depthTop == DepthAt(self, data, x, y - 1)
      depthBottom == DepthAt(self, data, x, y + 1)
      c == TexelCorners(self, x, y, Num(0))
      x1 == c[1][1]
      x2 == c[2][1]
      y1 == c[1][2]
      y2 == c[3][2]
  IN TexelCorners(self, x, y, depth)
     \o SelectSides(
          BlockSides(self, data, x, y),
          <<(<<(<<x1, y1, depthLeft>>), (<<x1, y2, depthLeft>>)>>),
            (<<(<<x2, y1, depthRight>>), (<<x2, y2, depthRight>>)>>),
            (<<(<<x1, y1, depthTop>>), (<<x2, y1, depthTop>>)>>),
            (<<(<<x1, y2, depthBottom>>), (<<x2, y2, depthBottom>>)>>)>>,
          1)

\* faces whose vertex counter grows by 2 for every side, emitted or not
BlockTexelFacesEverySide(self, data, x, y, j) ==
  LET sides == BlockSides(self, data, x, y)
      vl == j + 4
      vr == vl + 2
      vt == vl + 4
      vb == vl + 6
  IN <<(<<j, j + 1, j + 2>>), (<<j, j + 2, j + 3>>)>>
     \o SelectSides(
          sides,
          <<(<<(<<j, j + 3, vl + 1>>), (<<j, vl + 1, vl>>)>>),
            (<<(<<j + 2, j + 1, vr>>), (<<j + 2, vr, vr + 1>>)>>),
            (<<(<<j + 1, j, vt>>), (<<j + 1, vt, vt + 1>>)>>),
            (<<(<<j + 3, j + 2, vb + 1>>), (<<j + 3, vb + 1, vb>>)>>)>>,
          1)

\* the faces of the texel (x, y) whose front quad starts at vertex j: v is
\* j + 4 after the front quad and grows by 2 with every side quad
BlockTexelFaces(self, data, x, y, j) ==
  LET sides == BlockSides(self, data, x, y)
      vl == j + 4
      vr == vl + 2 * SidesAmong(sides, 1)
      vt == vl + 2 * SidesAmong(sides, 2)
      vb == vl + 2 * SidesAmong(sides, 3)
  IN <<(<<j, j + 1, j + 2>>), (<<j, j + 2, j + 3>>)>>
     \o SelectSides(
          sides,
          <<(<<(<<j, j + 3, vl + 1>>), (<<j, vl + 1, vl>>)>>),
            (<<(<<j + 2, j + 1, vr>>), (<<j + 2, vr, vr + 1>>)>>),
            (<<(<<j + 1, j, vt>>), (<<j + 1, vt, vt + 1>>)>>),
            (<<(<<j + 3, j + 2, vb + 1>>), (<<j + 3, vb + 1, vb>>)>>)>>,
          1)

\* the UVs of the faces of the texel (x, y)
BlockTexelUvs(self, data, x, y) ==
  LET t == TexelUvs(self, x, y)
  IN <<(<<(<<t.u1, t.v1>>), (<<t.u2, t.v1>>), (<<t.u2, t.v2>>)>>),
       (<<(<<t.u1, t.v1>>), (<<t.u2, t.v2>>), (<<t.u1, t.v2>>)>>)>>
     \o SelectSides(
          BlockSides(self, data, x, y),
          <<(<<(<<(<<t.u1, t.v1>>), (<<t.u1, t.v2>>), (<<t.u1, t.v2>>)>>),
               (<<(<<t.u1, t.v1>>), (<<t.u1, t.v2>>), (<<t.u1, t.v1>>)>>)>>),
            (<<(<<(<<t.u2, t.v2>>), (<<t.u2, t.v1>>), (<<t.u2, t.v1>>)>>),
               (<<(<<t.u2, t.v2>>), (<<t.u2, t.v1>>), (<<t.u2, t.v2>>)>>)>>),
            (<<(<<(<<t.u2, t.v1>>), (<<t.u1, t.v1>>), (<<t.u1, t.v1>>)>>),
               (<<(<<t.u2, t.v1>>), (<<t.u1, t.v1>>), (<<t.u2, t.v1>>)>>)>>),
            (<<(<<(<<t.u1, t.v2>>), (<<t.u2, t.v2>>), (<<t.u2, t.v2>>)>>),
               (<<(<<t.u1, t.v2>>), (<<t.u2, t.v2>>), (<<t.u1, t.v2>>)>>)>>)>>,
          1)

\* the texel loop of createBlockGeometry_ from texel k on: what it appends
RECURSIVE BlockVertices(_, _, _)
BlockVertices(self, data, k) ==
  IF k >= self.heightmapWidth_ * self.heightmapHeight_ THEN <<>>
  ELSE BlockTexelVertices(self, data, k % self.heightmapWidth_,
                          k \div self.heightmapWidth_)
       \o BlockVertices(self, data, k + 1)

RECURSIVE BlockFaces(_, _, _)
BlockFaces(self, data, k) ==
  IF k >= self.heightmapWidth_ * self.heightmapHeight_ THEN <<>>
  ELSE BlockTexelFaces(self, data, k % self.heightmapWidth_,
                       k \div self.heightmapWidth_,
                       4 * k + 2 * SidesBefore(self, data, k))
       \o BlockFaces(self, data, k + 1)

RECURSIVE BlockUvs(_, _, _)
BlockUvs(self, data, k) ==
  IF k >= self.heightmapWidth_ * self.heightmapHeight_ THEN <<>>
  ELSE BlockTexelUvs(self, data, k % self.heightmapWidth_,
                     k \div self.heightmapWidth_)
       \o BlockUvs(self, data, k + 1)

\* createBlockGeometry_(geometry, verticesOwner, data, createFaces): the
\* vertices are put on geometry, whatever verticesOwner is
CreateBlockGeometry(self, data, createFaces) ==
  [vertices |-> BlockVertices(self, data, 0), on |-> "geometry",
   faces |-> IF createFaces THEN BlockFaces(self, data, 0) ELSE <<>>,
   faceVertexUvs |-> IF createFaces THEN BlockUvs(self, data, 0) ELSE <<>>,
   createFaces |-> createFaces]

\* createHeightmapGeometry_(data, geometry, verticesOwner, createFaces): a
\* style the switch does not list writes nothing
CreateHeightmapGeometryData(self, data, createFaces) ==
  IF self.geometryStyle_ = "smooth"
  THEN CreateSmoothGeometry(self, data, createFaces)
  ELSE IF self.geometryStyle_ = "block"
  THEN CreateBlockGeometry(self, data, createFaces)
  ELSE IF self.geometryStyle_ = "float"
  THEN CreateFloatGeometry(self, data, createFaces)
  ELSE NoWrites

\* what round i of the morph target loop of createGeometry_ builds for a
\* populated alternate slot
TargetWrites(self, i) ==
  CreateHeightmapGeometryData(self, self.heightmapData_[i].values, FALSE)

\* round i of the loop reuses the vertices of the geometry
ReusesVertices(self, i) == ~Truthy(self.heightmaps_[i]) \/ i = 0

\* the rounds before round i that put their vertices on the geometry
RoundsOnGeometry(self, i) ==
  {j \in 0 .. (i - 1) :
     ~ReusesVertices(self, j) /\ TargetWrites(self, j).on = "geometry"}

\* geometry.vertices when round i of the loop starts
GeometryVertices(self, primary, i) ==
  LET js == RoundsOnGeometry(self, i)
  IN IF js = {} THEN primary.vertices
     ELSE TargetWrites(self, CHOOSE j \in js : \A m \in js : m <= j).vertices

\* a loop whose reused targets are left without vertices
MorphTargetOfEmpty(self, primary, i) ==
  IF ReusesVertices(self, i) THEN <<>>
  ELSE IF TargetWrites(self, i).on = "verticesOwner"
  THEN TargetWrites(self, i).vertices
  ELSE <<>>

\* morphTarget.vertices of round i
MorphTargetOf(self, primary, i) ==
  IF ReusesVertices(self, i) THEN GeometryVertices(self, primary, i)
  ELSE IF TargetWrites(self, i).on = "verticesOwner"
  THEN TargetWrites(self, i).vertices
  ELSE <<>>

\* createGeometry_ when the key is not in the cache: the geometry it builds
\* from the fields of the entity, or the assertion that stops it
BuildGeometry(self) ==
  LET numValidHeightmaps ==
        Cardinality({i \in Slots : Truthy(self.heightmaps_[i])})
      w == CreateHeightmapGeometryData(self, self.heightmapData_[0].values,
                                       TRUE)
      primary ==
        IF w.on = "none" THEN NewGeometry
        ELSE [NewGeometry EXCEPT !.vertices = w.vertices,
                                 !.faces = w.faces,
                                 !.faceVertexUvs = w.faceVertexUvs]
  IN IF ~Truthy(self.heightmapData_[0])
     THEN [err |-> "AssertData", geometry |-> NewGeometry]
     ELSE IF ~(numValidHeightmaps <= 1 \/ self.geometryStyle_ # "block")
     THEN [err |-> "AssertBlock", geometry |-> primary]
     ELSE IF \E i \in Slots : ~ReusesVertices(self, i)
                              /\ ~Truthy(self.heightmapData_[i])
     THEN [err |-> "AssertData", geometry |-> primary]
     ELSE [err |-> "",
           geometry |->
             [primary EXCEPT
                !.vertices = GeometryVertices(self, primary, NumSlots),
                !.morphTargets =
                    [n \in 1 .. NumSlots |->
                       MorphTargetOf(self, primary, n - 1)]]]

(***************************************************************************)
(* Construction                                                            *)
(***************************************************************************)
NewView == [texture_ |-> FALSE, geometry_ |-> FALSE, geometryKey_ |-> "",
            mesh_ |-> FALSE, influences |-> Undefined, loaded |-> FALSE]

\* initialize(options), options.heightmap .. heightmap4 = heightSources
Initialize(heightSources, imageSrc) ==
  [phase |-> "new",
   imageSrc_ |-> imageSrc,
   elementSrc |-> imageSrc,
   image_ |-> FALSE,
   heightSources_ |-> heightSources,
   heightmapKeys_ |-> [i \in Slots |-> ""],
   heightmaps_ |-> [i \in Slots |-> Undefined],
   heightmapData_ |-> [i \in Slots |-> Undefined],
   heightmapWidth_ |-> UndefinedDim,
   heightmapHeight_ |-> UndefinedDim,
   numLoaded |-> 0,
   numToLoad |-> 0,
   completions |-> 0,
   maxHeight_ |-> DefaultMaxHeight,
   geometryStyle_ |-> "smooth",
   geometryKey_ |-> "",
   geometry_ |-> FALSE,
   views |-> [n \in {ViewNames[k] : k \in 1 .. Len(ViewNames)} |-> NewView],
   morphing_ |-> FALSE,
   morphStartTime_ |-> 0,
   morphDuration_ |-> 0,
   morphElapsed_ |-> 0,
   startMorphTargets_ |-> MorphTargetInfluences(1),
   currentMorphTargets_ |-> MorphTargetInfluences(1),
   endMorphTargets_ |-> MorphTargetInfluences(1),
   morphBegin |-> 0,
   morphEnd |-> 0]

\* initialize(options) with options.geometryStyle
InitializeStyle(heightSources, imageSrc, geometryStyle) ==
  [Initialize(heightSources, imageSrc) EXCEPT
     !.geometryStyle_ = geometryStyle]

\* the heightmap options an entity is constructed with: heightmap is required
SourceConfigs ==
  {c \in [Slots -> Sources \cup {""}] :
     c[0] # "" /\ \A i \in Slots : i >= MaxOptionSlots => c[i] = ""}

\* what the calls of the application say about the transition of an entity:
\* the last morph over time (its time, snapshot, index and duration), whether
\* it is still in progress, whether it is paused, the time spent paused, and
\* the morphEnd events dispatched since it began
NoTransition ==
  [live |-> FALSE, at |-> 0, snap |-> MorphTargetInfluences(1), index |-> 1,
   ms |-> 0, paused |-> FALSE, gap |-> 0, resumed |-> FALSE,
   ticked |-> FALSE, ends |-> 0]

NoHistory ==
  [taken |-> [e \in Entities |-> [k \in Sources |-> 0]],
   released |-> [e \in Entities |-> [k \in Sources |-> 0]],
   slotCb |-> [e \in Entities |-> [i \in Slots |-> 0]],
   notified |-> <<>>,
   registered |-> <<>>,
   started |-> {},
   hits |-> {},
   handled |-> {},
   failed |-> {},
   published |-> {},
   stored |-> {},
   builds |-> 0,
   mismatchBuild |-> FALSE,
   pendingBuild |-> FALSE,
   disposedHeld |-> FALSE,
   anim |-> [e \in Entities |-> NoTransition]]

\* no build on given pixel data is considered
NoBuild == [stage |-> "none"]

\* the pixel array of a heightmap whose texels have the given channel values
\* (texels from 0, row by row): r, g, b, a per texel
PixelData(grid) ==
  [kind |-> "data",
   values |-> [i \in 0 .. (4 * Cardinality(DOMAIN grid) - 1) |->
                 IF i % 4 = 3 THEN 255 ELSE grid[i \div 4]]]

\* the fields of an entity that createGeometry_ reads, for a primary
\* heightmap of width x height texels and at most one alternate heightmap
BuildInputs ==
  UNION {
    {[heightmapWidth_ |-> width,
      heightmapHeight_ |-> height,
      maxHeight_ |-> DefaultMaxHeight,
      geometryStyle_ |-> style,
      textureImageWidth |-> TextureImageWidth,
      textureImageHeight |-> TextureImageHeight,
      heightmaps_ |->
          [i \in Slots |-> IF i = 0 \/ (alt.slot = i)
                           THEN [kind |-> "image"] ELSE Undefined],
      heightmapData_ |->
          [i \in Slots |->
             IF i = 0 THEN PixelData(grid)
             ELSE IF alt.slot = i
             THEN PixelData([k \in 0 .. (width * height - 1) |-> alt.level])
             ELSE Undefined]] :
       style \in GeometryStyles \cup OtherStyles,
       grid \in [0 .. (width * height - 1) -> Levels],
       alt \in {[slot |-> 0, level |-> 0]}
               \cup [slot : 1 .. (NumSlots - 1), level : Levels]} :
    width \in 1 .. MaxGridWidth, height \in 1 .. MaxGridHeight}

NoCalls == [setters |-> 0, morph |-> 0]

\* the state after the entities are constructed from the given options
Constructed(configs) ==
  [cache |-> <<>>,
   ents |-> [e \in Entities |-> Initialize(configs[e], "i.png")],
   loadedImgs |-> {},
   pending |-> {},
   texPending |-> {},
   decodes |-> [s \in Sources |-> 0],
   hist |-> NoHistory,
   now |-> 0,
   err |-> ""]

\* the handler has returned or thrown: the state it leaves
Commit(st) ==
  /\ cache' = st.cache
  /\ ents' = st.ents
  /\ loadedImgs' = st.loadedImgs
  /\ pending' = st.pending
  /\ texPending' = st.texPending
  /\ decodes' = st.decodes
  /\ hist' = st.hist
  /\ now' = st.now
  /\ errors' = IF st.err = "" THEN errors ELSE errors \cup {st.err}
  /\ built' = built

Starts(st) ==
  /\ cache = st.cache
  /\ ents = st.ents
  /\ loadedImgs = st.loadedImgs
  /\ pending = st.pending
  /\ texPending = st.texPending
  /\ decodes = st.decodes
  /\ hist = st.hist
  /\ now = st.now
  /\ errors = {}
  /\ calls = NoCalls
  /\ built = NoBuild

Init == \E configs \in [Entities -> SourceConfigs] : Starts(Constructed(configs))

(***************************************************************************)
(* Events: the engine's calls, the application's calls and load events     *)
(***************************************************************************)
\* the engine sets up the views of a constructed entity
DoSetUpViews(e) ==
  /\ ents[e].phase = "new"
  /\ Commit(SetUpViews([State EXCEPT !.ents[e].phase = "up"], e))
  /\ UNCHANGED calls

\* the load event of a heightmap Image
HeightmapLoad(p) ==
  /\ p \in pending
  /\ Commit(OnLoad([State EXCEPT !.pending = @ \ {p},
                                 !.loadedImgs = @ \cup {p.image},
                                 !.hist.handled = @ \cup {p.image}],
                   p.image, p.ent, p.index, p.key, p.callback))
  /\ UNCHANGED calls

\* the error event of a heightmap Image: the decode has failed, and the Image
\* has no listener for it
HeightmapError(p) ==
  /\ p \in pending
  /\ Commit([State EXCEPT !.pending = @ \ {p},
                          !.hist.failed = @ \cup {p}])
  /\ UNCHANGED calls

\* the load event of a texture Image
ImageLoad(t) ==
  /\ t \in texPending
  /\ Commit(ImageOnLoad([State EXCEPT !.texPending = @ \ {t}], t.ent))
  /\ UNCHANGED calls

DoSetHeightmap(e, heightmap, number) ==
  /\ ents[e].phase = "up"
  /\ calls' = [calls EXCEPT !.setters = @ + 1]
  /\ Commit(SetHeightmap(State, e, heightmap, number))

DoSetImageSrc(e, imageSrc) ==
  /\ ents[e].phase = "up"
  /\ calls' = [calls EXCEPT !.setters = @ + 1]
  /\ Commit(SetImageSrc(State, e, imageSrc))

DoSetMaxHeight(e, maxHeight) ==
  /\ ents[e].phase = "up"
  /\ calls' = [calls EXCEPT !.setters = @ + 1]
  /\ Commit(SetMaxHeight(State, e, maxHeight))

DoSetGeometryStyle(e, geometryStyle) ==
  /\ ents[e].phase = "up"
  /\ calls' = [calls EXCEPT !.setters = @ + 1]
  /\ Commit(SetGeometryStyle(State, e, geometryStyle))

\* the engine destroys the entity
DoCleanUp(e) ==
  /\ ents[e].phase = "up"
  /\ Commit(CleanUp([State EXCEPT !.ents[e].phase = "dead"], e))
  /\ UNCHANGED calls

\* the engine tears down the views of the entity
DoTearDownViews(e) ==
  /\ ents[e].phase = "up"
  /\ Commit(TearDownViews([State EXCEPT !.ents[e].phase = "down"], e))
  /\ UNCHANGED calls

\* the engine unloads a view
DoUnload(e, v) ==
  /\ ents[e].phase = "down"
  /\ ents[e].views[v].texture_
  /\ Commit(ViewUnload(State, e, v))
  /\ UNCHANGED calls

\* a millisecond passes
Advance ==
  /\ now < MaxTime
  /\ now' = now + 1
  /\ hist' = [hist EXCEPT
                !.anim = [e \in Entities |->
                            IF hist.anim[e].paused
                            THEN [hist.anim[e] EXCEPT !.gap = @ + 1]
                            ELSE hist.anim[e]]]
  /\ UNCHANGED <<cache, ents, loadedImgs, pending, texPending, decodes,
                 errors, calls, built>>

\* the engine calls update for a frame
DoUpdate(e) ==
  LET s1 == Update(State, e)
      a == hist.anim[e]
      ended == s1.ents[e].morphEnd > ents[e].morphEnd
  IN /\ Commit([s1 EXCEPT
                  !.hist.anim[e] =
                      [a EXCEPT
                         !.live = a.live /\ ~ended,
                         !.ends = IF ended THEN a.ends + 1 ELSE a.ends,
                         !.ticked = a.ticked
                                    \/ (Loaded(ents[e]) /\ a.live
                                        /\ a.resumed /\ ~a.paused)]])
     /\ UNCHANGED calls

\* a call of update would change the state
UpdateChanges(e) ==
  LET s1 == Update(State, e)
  IN \/ [s1 EXCEPT !.err = ""] # State
     \/ ~Ok(s1) /\ s1.err \notin errors
     \/ Loaded(ents[e]) /\ hist.anim[e].live /\ hist.anim[e].resumed
        /\ ~hist.anim[e].paused /\ ~hist.anim[e].ticked

\* the application calls morph(index, ms / 1000)
DoMorph(e, index, ms) ==
  LET s1 == Morph(State, e, index, ms)
      a == hist.anim[e]
  IN /\ Commit(IF ~Ok(s1) THEN s1
               ELSE [s1 EXCEPT
                       !.hist.anim[e] =
                           IF ms > 0
                           THEN [live |-> TRUE, at |-> now,
                                 snap |-> ents[e].currentMorphTargets_,
                                 index |-> index, ms |-> ms,
                                 paused |-> FALSE, gap |-> 0,
                                 resumed |-> FALSE, ticked |-> FALSE,
                                 ends |-> 0]
                           ELSE [a EXCEPT !.live = FALSE,
                                          !.paused = FALSE]])
     /\ calls' = [calls EXCEPT !.morph = @ + 1]

\* the application calls setMorphing(morphing)
DoSetMorphing(e, morphing) ==
  LET s1 == SetMorphing(State, e, morphing)
      a == hist.anim[e]
  IN /\ Commit([s1 EXCEPT
                  !.hist.anim[e] =
                      IF ~morphing /\ a.live /\ ~a.paused
                      THEN [a EXCEPT !.paused = TRUE]
                      ELSE IF morphing /\ a.live /\ a.paused
                      THEN [a EXCEPT !.paused = FALSE, !.resumed = TRUE]
                      ELSE a])
     /\ UNCHANGED calls

Next ==
  \/ \E e \in Entities : DoSetUpViews(e)
  \/ \E p \in pending : HeightmapLoad(p)
  \/ \E t \in texPending : ImageLoad(t)
  \/ \E e \in Entities, h \in Sources, n \in 1 .. NumSlots :
        calls.setters < MaxCalls /\ DoSetHeightmap(e, h, n)
  \/ \E e \in Entities, i \in ImageSources :
        calls.setters < MaxCalls /\ DoSetImageSrc(e, i)
  \/ \E e \in Entities, m \in MaxHeights :
        calls.setters < MaxCalls /\ DoSetMaxHeight(e, m)
  \/ \E e \in Entities : DoCleanUp(e)

\* the load coordinator, from construction
Spec == Init /\ [][Next]_vars

\* a cache that already holds the fully loaded entries of the sources srcs
Preloaded(st, srcs) ==
  [st EXCEPT
     !.cache = [k \in srcs |->
                  [value |-> [kind |-> "heightmap",
                              heightmap |-> ImageOf(k, 1),
                              heightmapData |->
                                  PixelsOf(ImageOf(k, 1), ImageOf(k, 1)),
                              notifiers |-> <<>>],
                   refcount |-> 1]],
     !.loadedImgs = {ImageOf(k, 1) : k \in srcs},
     !.decodes = [k \in Sources |-> IF k \in srcs THEN 1 ELSE 0],
     !.hist.handled = {ImageOf(k, 1) : k \in srcs}]

InitHit ==
  \E configs \in [Entities -> SourceConfigs] :
    \E srcs \in (SUBSET Sources) \ {{}} :
      Starts(Preloaded(Constructed(configs), srcs))

\* the load coordinator on a cache that holds fully loaded heightmaps
SpecHit == InitHit /\ [][Next]_vars

\* both entities are constructed for the same heightmap
InitGeom ==
  Starts(Constructed([e \in Entities |->
                        [i \in Slots |-> IF i = 0 THEN "a.png" ELSE ""]]))

NextGeom ==
  \/ \E e \in Entities : DoSetUpViews(e)
  \/ \E p \in pending : HeightmapLoad(p)
  \/ \E t \in texPending : ImageLoad(t)
  \/ \E e \in Entities, i \in ImageSources :
        calls.setters < MaxGeomCalls /\ DoSetImageSrc(e, i)
  \/ \E e \in Entities, m \in MaxHeights :
        calls.setters < MaxGeomCalls /\ DoSetMaxHeight(e, m)
  \/ \E e \in Entities : DoTearDownViews(e)
  \/ \E e \in Entities, n \in 1 .. Len(ViewNames) : DoUnload(e, ViewNames[n])

\* the geometry life cycle of the models and their views
SpecGeom == InitGeom /\ [][NextGeom]_vars

InitBuild ==
  /\ \E configs \in [Entities -> {[i \in Slots |-> IF i = 0 THEN "a.png"
                                                   ELSE ""]}] :
       LET st == Constructed(configs)
       IN /\ cache = st.cache
          /\ ents = st.ents
          /\ loadedImgs = st.loadedImgs
          /\ pending = st.pending
          /\ texPending = st.texPending
          /\ decodes = st.decodes
          /\ hist = st.hist
          /\ now = st.now
  /\ errors = {}
  /\ calls = NoCalls
  /\ \E self \in BuildInputs : built = [stage |-> "input", self |-> self]

\* createGeometry_ builds the geometry of the input
DoBuild ==
  /\ built.stage = "input"
  /\ built' = [stage |-> "built", self |-> built.self,
               result |-> BuildGeometry(built.self)]
  /\ UNCHANGED <<cache, ents, loadedImgs, pending, texPending, decodes,
                 errors, calls, hist, now>>

NextBuild == DoBuild

\* the geometry builders on given pixel data
SpecBuild == InitBuild /\ [][NextBuild]_vars

\* both entities are constructed for the same heightmap, one of them with a
\* style option
InitStyle ==
  \E style \in StyleOptions :
    Starts([Constructed([e \in Entities |->
                           [i \in Slots |-> IF i = 0 THEN "a.png" ELSE ""]])
              EXCEPT !.ents =
                [e \in Entities |->
                   IF e \in StyleEntities
                   THEN InitializeStyle(@[e].heightSources_, @[e].imageSrc_,
                                        style)
                   ELSE @[e]]])

NextStyle ==
  \/ \E e \in Entities : DoSetUpViews(e)
  \/ \E p \in pending : HeightmapLoad(p)
  \/ \E p \in pending : HeightmapError(p)
  \/ \E t \in texPending : ImageLoad(t)
  \/ \E e \in Entities, i \in ImageSources :
        calls.setters < MaxStyleCalls /\ DoSetImageSrc(e, i)
  \/ \E e \in StyleEntities, h \in Sources, n \in 1 .. MaxOptionSlots :
        calls.setters < MaxStyleCalls /\ DoSetHeightmap(e, h, n)
  \/ \E e \in StyleEntities, m \in MaxHeights :
        calls.setters < MaxStyleCalls /\ DoSetMaxHeight(e, m)
  \/ \E e \in StyleEntities, g \in GeometryStyles \cup OtherStyles :
        calls.setters < MaxStyleCalls /\ DoSetGeometryStyle(e, g)

\* the setters of the heightmaps, the maximum height and the style
SpecStyle == InitStyle /\ [][NextStyle]_vars

NextFree ==
  \/ \E e \in Entities : DoSetUpViews(e)
  \/ \E p \in pending : HeightmapLoad(p)
  \/ \E e \in Entities, h \in Sources, n \in 1 .. MaxOptionSlots :
        calls.setters < MaxFreeCalls /\ DoSetHeightmap(e, h, n)
  \/ \E e \in Entities : DoCleanUp(e)

\* the heightmap slots of the entities, loaded, changed and freed
SpecFree == InitGeom /\ [][NextFree]_vars

NextMorph ==
  \/ \E e \in MorphEntities : DoSetUpViews(e)
  \/ \E p \in pending : HeightmapLoad(p)
  \/ \E t \in texPending : ImageLoad(t)
  \/ \E e \in MorphEntities, i \in ImageSources :
        ~ents[e].image_ /\ ents[e].imageSrc_ # i /\ DoSetImageSrc(e, i)
  \/ Advance
  \/ \E e \in MorphEntities : DoUpdate(e)
  \/ \E e \in MorphEntities, index \in MorphIndices, ms \in MorphMillis :
        calls.morph < MaxMorphs /\ Loaded(ents[e]) /\ DoMorph(e, index, ms)
  \/ \E e \in MorphEntities, morphing \in BOOLEAN :
        Loaded(ents[e]) /\ DoSetMorphing(e, morphing)

\* the morph animator of an entity, from construction
SpecMorph == InitGeom /\ [][NextMorph]_vars

\* the morph animator with the clock running, the engine calling update for
\* every frame, and the application resuming every transition it has paused
\* (strong fairness of update, which the engine calls whatever the application
\* does, and weak fairness of the resuming call, with their enabling
\* conditions written out)
SpecMorphFair ==
  /\ SpecMorph
  /\ WF_vars(Advance)
  /\ \A e \in MorphEntities :
       /\ \/ <>[](~UpdateChanges(e))
          \/ []<><<DoUpdate(e)>>_vars
       /\ \/ []<>(~(hist.anim[e].live /\ hist.anim[e].paused))
          \/ []<><<hist.anim[e].live /\ hist.anim[e].paused
                   /\ DoSetMorphing(e, TRUE)>>_vars

(***************************************************************************)
(* Properties                                                              *)
(***************************************************************************)
\* the decode started for Image `image` has completed: its load listener ran
Handled(image) == image \in hist.handled

\* C1: when an entity asks for a source whose decode, started for another
\* entity, is still pending, only one decode is started for the source, and
\* once that decode has completed both entities' slots hold the same pixel
\* buffer and both load callbacks have been invoked.
C1_DedupLoad ==
  \A n \in 1 .. Len(hist.registered) : \A l \in hist.started :
    LET w == hist.registered[n]
    IN (/\ l.image = w.image
        /\ l.ent # w.ent
        /\ Handled(l.image)
        /\ calls.setters = 0)
       => /\ decodes[w.key] = 1
          /\ ents[l.ent].heightmapData_[l.index].kind = "pixels"
          /\ ents[w.ent].heightmapData_[w.index]
               = ents[l.ent].heightmapData_[l.index]
          /\ hist.slotCb[l.ent][l.index] >= 1
          /\ hist.slotCb[w.ent][w.index] >= 1

\* C2: loadHeightmaps_ invokes its completion callback exactly once, after
\* every non-empty slot has completed: never twice, never before a slot's
\* load has called back, and once when all the loads it started are done.
C2_CompletionOnce ==
  \A e \in Entities :
    /\ ents[e].completions <= 1
    /\ ents[e].completions = 1 =>
         \A i \in Slots : ents[e].heightSources_[i] # ""
                             => hist.slotCb[e][i] >= 1
    /\ (/\ ents[e].phase = "up"
        /\ calls.setters = 0
        /\ pending = {})
       => ents[e].completions = 1

\* C3: an entity that has freed its slots in cleanUp has released every
\* heightmap reference it took, and once every entity is cleaned up and no
\* decode is left no heightmap source is in the cache.
C3_ReleasesAll ==
  /\ \A e \in Entities : \A k \in Sources :
       ents[e].phase = "dead" => hist.released[e][k] = hist.taken[e][k]
  /\ ((\A e \in Entities : ents[e].phase = "dead") /\ pending = {})
       => \A k \in Sources : k \notin DOMAIN cache

\* C5: no geometry build is attempted while two populated slots of the
\* entity hold pixel buffers of different width or height.
C5_NoMismatchedBuild == ~hist.mismatchBuild

\* C7: once the decode a notifier waits for has completed, the notifier has
\* been invoked exactly once and the entry's notifier list is empty; no
\* notifier is ever invoked twice.
C7_NotifiedOnce ==
  \A n \in 1 .. Len(hist.registered) :
    LET w == hist.registered[n]
    IN /\ hist.notified[n] <= 1
       /\ Handled(w.image) =>
            /\ hist.notified[n] = 1
            /\ w.key \in DOMAIN cache => cache[w.key].value.notifiers = <<>>


\* C4: a geometry in the cache, which some consumer still references, has
\* not been disposed: only the release that evicts it disposes it.
C4_NoDisposeWhileHeld ==
  \A k \in DOMAIN cache :
    cache[k].value.kind = "geometry" => ~cache[k].value.disposed

\* C6: a slot that loadHeightmap_ filled from a fully loaded cache entry
\* holds the pixel buffer and the image of that entry, and its callback has
\* been invoked.
C6_HitReusesPixelBuffer ==
  \A h \in hist.hits :
    (h.key \in DOMAIN cache /\ ents[h.ent].heightSources_[h.index] = h.key)
    => /\ ents[h.ent].heightmapData_[h.index]
            = cache[h.key].value.heightmapData
       /\ ents[h.ent].heightmaps_[h.index] = cache[h.key].value.heightmap
       /\ hist.slotCb[h.ent][h.index] >= 1


\* exactly one component is 1 and the others are 0
IsOneHot(weights) ==
  \E i \in Slots :
    weights[i] = Num(1) /\ \A j \in Slots \ {i} : weights[j] = Num(0)

\* start[i] * (1 - t) + end[i] * t
Blend(start, end, t) ==
  [i \in Slots |->
     Plus(Times(start[i], Plus(Num(1), Times(Num(0 - 1), t))),
          Times(end[i], t))]

\* the tick of a loaded entity ends the transition
Finishes(e) ==
  /\ ents'[e].currentMorphTargets_ = ents[e].endMorphTargets_
  /\ ents'[e].startMorphTargets_ = ents[e].endMorphTargets_
  /\ ~ents'[e].morphing_
  /\ ents'[e].morphEnd = ents[e].morphEnd + 1

\* C8: after morph(idx, d) with d > 0 and no pause, a tick at elapsed time
\* el <= d sets the current weights to start * (1 - el/d) + end * (el/d),
\* start being the snapshot taken by morph, and the first tick with el > d
\* sets them to the end vector, which is one-hot, copies it to the start
\* weights, leaves the morphing state and emits morphEnd.
C8_LerpThenOneHot ==
  [][\A e \in MorphEntities :
       LET a == hist.anim[e]
           el == now - a.at
       IN (DoUpdate(e) /\ Loaded(ents[e]) /\ a.live /\ ~a.paused
             /\ ~a.resumed)
          => IF el > a.ms
             THEN Finishes(e) /\ IsOneHot(ents'[e].currentMorphTargets_)
             ELSE /\ ents'[e].currentMorphTargets_
                       = Blend(a.snap, ents[e].endMorphTargets_,
                               Frac(el, a.ms))
                  /\ ents'[e].morphing_]_vars

\* C9: in a transition that was paused and resumed, a tick while paused
\* leaves the current weights unchanged, and a tick after the resume computes
\* the weights from the un-paused time el since morph: it blends at el/d
\* while el <= d and finishes the transition once el > d; a transition in
\* progress that is not paused is morphing.
C9_ResumeContinues ==
  [][\A e \in MorphEntities :
       LET a == hist.anim[e]
           el == now - a.at - a.gap
       IN /\ (DoUpdate(e) /\ a.live /\ a.paused)
             => ents'[e].currentMorphTargets_ = ents[e].currentMorphTargets_
          /\ (DoUpdate(e) /\ Loaded(ents[e]) /\ a.live /\ ~a.paused
                /\ a.resumed)
             => IF el > a.ms
                THEN Finishes(e)
                ELSE /\ ents'[e].currentMorphTargets_
                          = Blend(a.snap, ents[e].endMorphTargets_,
                                  Frac(el, a.ms))
                     /\ ents'[e].morphing_
          /\ (hist'.anim[e].live /\ hist'.anim[e].resumed)
             => (ents'[e].morphing_ <=> ~hist'.anim[e].paused)]_vars

\* a resumed transition has been ticked between its ends after a pause of
\* at least a millisecond
C9_Witness ==
  \E e \in MorphEntities :
    LET a == hist.anim[e]
    IN /\ a.live /\ a.resumed /\ a.ticked /\ a.gap >= 1
       /\ ents[e].currentMorphTargets_ # a.snap
       /\ ents[e].currentMorphTargets_ # ents[e].endMorphTargets_

\* C10: morph(idx, seconds) with seconds <= 0 sets the start, end and
\* current weights to a one-hot vector, which the meshes of the views show,
\* leaves the entity not morphing with duration and elapsed time 0, and
\* emits neither morphBegin nor morphEnd.
C10_ImmediateMorph ==
  [][\A e \in MorphEntities, idx \in MorphIndices, ms \in MorphMillis :
       (DoMorph(e, idx, ms) /\ ms <= 0 /\ errors' = errors)
       => /\ IsOneHot(ents'[e].currentMorphTargets_)
          /\ ents'[e].startMorphTargets_ = ents'[e].currentMorphTargets_
          /\ ents'[e].endMorphTargets_ = ents'[e].currentMorphTargets_
          /\ \A n \in 1 .. Len(ViewNames) :
               ents'[e].views[ViewNames[n]].mesh_
               => ents'[e].views[ViewNames[n]].influences
                    = ents'[e].currentMorphTargets_
          /\ ~ents'[e].morphing_
          /\ ents'[e].morphDuration_ = 0
          /\ ents'[e].morphElapsed_ = 0
          /\ ents'[e].morphBegin = ents[e].morphBegin
          /\ ents'[e].morphEnd = ents[e].morphEnd]_vars


\* C11: morph accepts every heightmap number 1 .. 4, and for every index it
\* accepts the end weights are one-hot, with the 1 at the slot of the
\* requested heightmap.
C11_OneHotEnd ==
  [][\A e \in MorphEntities, idx \in MorphIndices, ms \in MorphMillis :
       DoMorph(e, idx, ms)
       => /\ idx \in 1 .. NumSlots => Ok(Morph(State, e, idx, ms))
          /\ Ok(Morph(State, e, idx, ms))
             => /\ IsOneHot(ents'[e].endMorphTargets_)
                /\ idx \in 1 .. NumSlots
                /\ ents'[e].endMorphTargets_[idx - 1] = Num(1)]_vars

\* C12: every current weight is a number that is not negative, and the
\* current weights of an entity that is neither morphing nor paused are
\* one-hot.
C12_WeightsInRange ==
  \A e \in MorphEntities :
    /\ \A i \in Slots :
         /\ ~IsNaN(ents[e].currentMorphTargets_[i])
         /\ ents[e].currentMorphTargets_[i].n >= 0
    /\ (~ents[e].morphing_ /\ ~hist.anim[e].paused)
       => IsOneHot(ents[e].currentMorphTargets_)


\* the input of the build has exactly the slots in the set populated
PopulatedSlots(self) == {i \in Slots : Truthy(self.heightmaps_[i])}

\* all texels of the primary heightmap of the input have the same depth
FlatPrimary(self) ==
  \A i, j \in DOMAIN self.heightmapData_[0].values :
    (i % 4 # 3 /\ j % 4 # 3)
    => self.heightmapData_[0].values[i] = self.heightmapData_[0].values[j]

\* C13: the block geometry of a W x H heightmap whose texels all have the
\* same depth has exactly 2 * W * H faces, the front faces, and no side quad
\* (4 * W * H vertices).
C13_FlatBlockFrontOnly ==
  (built.stage = "built" /\ built.self.geometryStyle_ = "block"
     /\ PopulatedSlots(built.self) = {0} /\ FlatPrimary(built.self))
  => /\ built.result.err = ""
     /\ Len(built.result.geometry.faces)
          = 2 * built.self.heightmapWidth_ * built.self.heightmapHeight_
     /\ Len(built.result.geometry.vertices)
          = 4 * built.self.heightmapWidth_ * built.self.heightmapHeight_

\* C14: the smooth geometry of a W x H heightmap with W, H >= 2 has exactly
\* W * H vertices and 2 * (W - 1) * (H - 1) faces, and every morph target
\* built from a populated alternate slot has exactly W * H vertices.
C14_SmoothCounts ==
  (built.stage = "built" /\ built.self.geometryStyle_ = "smooth"
     /\ built.self.heightmapWidth_ >= 2 /\ built.self.heightmapHeight_ >= 2)
  => LET W == built.self.heightmapWidth_
         H == built.self.heightmapHeight_
         g == built.result.geometry
     IN /\ built.result.err = ""
        /\ Len(g.vertices) = W * H
        /\ Len(g.faces) = 2 * (W - 1) * (H - 1)
        /\ Len(g.faceVertexUvs) = Len(g.faces)
        /\ \A i \in PopulatedSlots(built.self) \ {0} :
             Len(g.morphTargets[i + 1]) = W * H

\* a smooth geometry is built from a 2 x 2 heightmap with an alternate
\* heightmap of other depths
C14_Witness ==
  /\ built.stage = "built" /\ built.self.geometryStyle_ = "smooth"
  /\ built.self.heightmapWidth_ = 2 /\ built.self.heightmapHeight_ = 2
  /\ PopulatedSlots(built.self) = {0, 2}
  /\ built.result.geometry.morphTargets[3] # built.result.geometry.vertices
  /\ Len(built.result.geometry.faces) = 2

\* C15: a geometry that createGeometry_ builds to the end has exactly 4
\* morph targets, each with as many vertices as the geometry; the targets of
\* slot 0 and of the unpopulated slots are the vertices of the geometry; and
\* the vertices, faces and UVs are those of the build without alternates.
C15_MorphTargets ==
  (built.stage = "built" /\ built.result.err = "")
  => LET g == built.result.geometry
         alone ==
           BuildGeometry(
             [built.self EXCEPT
                !.heightmaps_ = [i \in Slots |-> IF i = 0 THEN @[i]
                                                 ELSE Undefined],
                !.heightmapData_ = [i \in Slots |-> IF i = 0 THEN @[i]
                                                    ELSE Undefined]])
     IN /\ Len(g.morphTargets) = 4
        /\ \A n \in 1 .. 4 : Len(g.morphTargets[n]) = Len(g.vertices)
        /\ \A i \in Slots :
             (i = 0 \/ i \notin PopulatedSlots(built.self))
             => g.morphTargets[i + 1] = g.vertices
        /\ g.vertices = alone.geometry.vertices
        /\ g.faces = alone.geometry.faces
        /\ g.faceVertexUvs = alone.geometry.faceVertexUvs

\* a float geometry is built with a morph target of its own for slot 1
C15_Witness ==
  /\ built.stage = "built" /\ built.result.err = ""
  /\ built.self.geometryStyle_ = "float"
  /\ PopulatedSlots(built.self) = {0, 1}
  /\ Len(built.result.geometry.vertices) = 16
  /\ built.result.geometry.morphTargets[2] # built.result.geometry.vertices
  /\ built.result.geometry.morphTargets[4] = built.result.geometry.vertices


\* the configuration of the entity is the block style with more than one
\* heightmap source
BlockMulti(ent) ==
  /\ ent.geometryStyle_ = "block"
  /\ Cardinality({i \in Slots : ent.heightSources_[i] # ""}) > 1

\* C16: while an entity has the block style and more than one populated
\* heightmap slot, no geometry is in the cache under the key of its
\* configuration, and once a build was tried for that configuration the
\* entity has no geometry and the configuration error is reported.
C16_BlockMultiFails ==
  \A e \in Entities :
    BlockMulti(ents[e])
    => /\ ~Has(State, GeometryKey(ents[e]))
       /\ ents[e].geometryKey_ = GeometryKey(ents[e])
          => /\ ~ents[e].geometry_
             /\ errors \cap {"AssertBlock", "AssertData"} # {}

\* a block build was tried with two populated slots, on a change of the
\* maximum height after the style and the second heightmap were set
C16_Witness ==
  \E e \in Entities :
    /\ BlockMulti(ents[e])
    /\ ents[e].geometryKey_ = GeometryKey(ents[e])
    /\ ents[e].heightmapData_[0].kind = "pixels"
    /\ ents[e].maxHeight_ # DefaultMaxHeight
    /\ "AssertBlock" \in errors


\* what the geometry of an entity is computed from
GeometryTuple(ent) ==
  <<ent.heightSources_, ent.maxHeight_, ent.geometryStyle_>>

\* createGeometry_ has run for the configuration the entity has
BuiltAsConfigured(ent) == ent.geometryKey_ = GeometryKey(ent)

\* C17: two entities whose geometry was built from the same heightmap
\* sources, maximum height and style have the same geometry key, whatever
\* their texture image source, and the geometry was built once; entities
\* that differ there have different keys.
C17_KeyByTuple ==
  \A e1, e2 \in Entities :
    (BuiltAsConfigured(ents[e1]) /\ BuiltAsConfigured(ents[e2]))
    => /\ (GeometryTuple(ents[e1]) = GeometryTuple(ents[e2]))
          <=> (ents[e1].geometryKey_ = ents[e2].geometryKey_)
       /\ (e1 # e2 /\ ents[e1].geometry_ /\ ents[e2].geometry_
             /\ GeometryTuple(ents[e1]) = GeometryTuple(ents[e2]))
          => cache[ents[e1].geometryKey_].refcount >= 2


\* C18: createGeometry_ never runs while a slot of the entity has a source
\* and not yet the pixel array of that source.
C18_NoBuildWhilePending == ~hist.pendingBuild


\* an entity still waits for the heightmap Image in one of its slots: the
\* slot holds the Image and not its pixel array
WaitsFor(ent, image) ==
  \E i \in Slots : ent.heightmaps_[i] = image /\ ~Truthy(ent.heightmapData_[i])

\* C19: once the decode of a heightmap has failed, the failure is reported,
\* the slot it was started for no longer holds the heightmap, and no entity
\* still waits for it.
C19_DecodeFailureSurfaced ==
  \A p \in hist.failed :
    /\ errors # {}
    /\ ents[p.ent].heightmaps_[p.index] # p.image
    /\ \A e \in Entities : ~WaitsFor(ents[e], p.image)


\* C20: a style outside smooth, block and float is rejected, at construction
\* and in setGeometryStyle: for an entity that was given one, createGeometry_
\* does not run, it has no geometry and none is in the cache under its key.
C20_UnsupportedStyleRejected ==
  \A e \in Entities :
    ents[e].geometryStyle_ \notin GeometryStyles
    => /\ ~BuiltAsConfigured(ents[e])
       /\ ~ents[e].geometry_
       /\ ~Has(State, GeometryKey(ents[e]))


\* C21: the load coordinator calls set only for a key that is absent from
\* the cache: no handler ever stops on KeyCollision.
C21_SetOnlyAbsentKeys == "KeyCollision" \notin errors


\* the slots of the entity that hold the cache key
SlotsHolding(ent, key) == {i \in Slots : ent.heightmapKeys_[i] = key}

\* C22: freeHeightmap_ releases the key of a slot that holds one exactly
\* once and clears it, and does nothing to the cache for a slot without a
\* key: cleanUp releases each key once per slot that holds it and leaves no
\* key, and setHeightmap with a new source releases the key of its slot only;
\* neither releases a key that is not in the cache.
C22_FreeOnce ==
  [][\A e \in Entities :
       /\ DoCleanUp(e)
          => /\ \A k \in Sources :
                  hist'.released[e][k]
                    = hist.released[e][k]
                        + Cardinality(SlotsHolding(ents[e], k))
             /\ \A i \in Slots : ents'[e].heightmapKeys_[i] = ""
             /\ errors' = errors
       /\ \A h \in Sources, n \in 1 .. NumSlots :
            (DoSetHeightmap(e, h, n) /\ ents[e].heightSources_[n - 1] # h)
            => /\ \A k \in Sources :
                    hist'.released[e][k]
                      = hist.released[e][k]
                          + (IF n - 1 \in SlotsHolding(ents[e], k)
                             THEN 1 ELSE 0)
               /\ ents'[e].heightmapKeys_[n - 1] = ""
               /\ \A i \in Slots \ {n - 1} :
                    ents'[e].heightmapKeys_[i] = ents[e].heightmapKeys_[i]
               /\ "NotFound" \notin errors']_vars

\* an entity with one heightmap slot released the key of its first source
\* when the source was changed and the key of the second one in cleanUp
C22_Witness ==
  \E e \in Entities :
    /\ ents[e].phase = "dead"
    /\ \A i \in Slots \ {0} : ents[e].heightSources_[i] = ""
    /\ hist.released[e]["a.png"] = 1
    /\ hist.released[e]["b.png"] = 1
    /\ \A i \in Slots : ents[e].heightmapKeys_[i] = ""


\* how many references the model of the entity and its views hold on the key
HoldersOf(ent, key) ==
  (IF ent.geometry_ /\ ent.geometryKey_ = key THEN 1 ELSE 0)
  + Cardinality({n \in 1 .. Len(ViewNames) :
                   /\ ent.views[ViewNames[n]].geometry_
                   /\ ent.views[ViewNames[n]].geometryKey_ = key})

\* the refcount of the key, 0 when the cache has no entry for it
RefCount(c, key) == IF key \in DOMAIN c THEN c[key].refcount ELSE 0

\* after the step the entity holds a geometry under the key of its new
\* configuration, each view that had a mesh has one on that key, and the
\* references of the entity on its former key are released
Rebuilt(e) ==
  LET old == ents[e].geometryKey_
      new == GeometryKey(ents'[e])
  IN /\ ents'[e].geometry_
     /\ ents'[e].geometryKey_ = new
     /\ new \in DOMAIN cache'
     /\ \A n \in 1 .. Len(ViewNames) :
          ents[e].views[ViewNames[n]].mesh_
          => /\ ents'[e].views[ViewNames[n]].mesh_
             /\ ents'[e].views[ViewNames[n]].geometryKey_ = new
     /\ (ents[e].geometry_ /\ old # new)
        => RefCount(cache', old)
             = RefCount(cache, old) - HoldersOf(ents[e], old)

\* C23: setMaxHeight or setGeometryStyle with a new value on an entity whose
\* texture image is set releases the references on the former geometry key
\* and leaves the entity and each of its meshes on a geometry under the key
\* of the new configuration; with the current value nothing changes.
C23_RebuildOnChange ==
  [][\A e \in StyleEntities :
       /\ \A m \in MaxHeights :
            DoSetMaxHeight(e, m)
            => IF m = ents[e].maxHeight_
               THEN UNCHANGED <<ents, cache, errors>>
               ELSE ents[e].image_ => Rebuilt(e)
       /\ \A g \in GeometryStyles :
            DoSetGeometryStyle(e, g)
            => IF g = ents[e].geometryStyle_
               THEN UNCHANGED <<ents, cache, errors>>
               ELSE ents[e].image_ => Rebuilt(e)]_vars


\* the pairs of adjacent texels of a grid: a texel, the neighbour to its
\* right or below, and the numbers of the side quads that face each other
\* (1 left, 2 right, 3 top, 4 bottom)
AdjacentPairs(self) ==
  {[x |-> x, y |-> y, nx |-> x + 1, ny |-> y, side |-> 2, back |-> 1] :
     x \in 0 .. (self.heightmapWidth_ - 2),
     y \in 0 .. (self.heightmapHeight_ - 1)}
  \cup
  {[x |-> x, y |-> y, nx |-> x, ny |-> y + 1, side |-> 4, back |-> 3] :
     x \in 0 .. (self.heightmapWidth_ - 1),
     y \in 0 .. (self.heightmapHeight_ - 2)}

\* the faces of the geometry that lie on the edge two adjacent texels share
FacesBetween(self, g, p) ==
  LET axis == IF p.side = 2 THEN 1 ELSE 2
      other == IF p.side = 2 THEN 2 ELSE 1
      edge == IF p.side = 2 THEN Frac(p.nx, self.heightmapWidth_)
              ELSE Frac(p.ny, self.heightmapHeight_)
      span == IF p.side = 2
              THEN {Frac(p.y, self.heightmapHeight_),
                    Frac(p.y + 1, self.heightmapHeight_)}
              ELSE {Frac(p.x, self.heightmapWidth_),
                    Frac(p.x + 1, self.heightmapWidth_)}
  IN {f \in 1 .. Len(g.faces) :
        \A c \in 1 .. 3 :
          /\ g.vertices[g.faces[f][c] + 1][axis] = edge
          /\ g.vertices[g.faces[f][c] + 1][other] \in span}

\* C24: in a block geometry, two adjacent texels have one side quad (two
\* faces) between them when their depths differ, emitted by the texel of
\* greater depth, and none when their depths are equal; never two quads.
C24_SideQuadBetween ==
  (built.stage = "built" /\ built.self.geometryStyle_ = "block"
     /\ built.result.err = "")
  => \A p \in AdjacentPairs(built.self) :
       LET self == built.self
           data == self.heightmapData_[0].values
           depth == DepthAt(self, data, p.x, p.y)
           other == DepthAt(self, data, p.nx, p.ny)
           mine == BlockSides(self, data, p.x, p.y)[p.side]
           theirs == BlockSides(self, data, p.nx, p.ny)[p.back]
       IN /\ Cardinality(FacesBetween(self, built.result.geometry, p))
               = IF depth = other THEN 0 ELSE 2
          /\ (mine \/ theirs) <=> depth # other
          /\ ~(mine /\ theirs)
          /\ mine => Gt(depth, other)
          /\ theirs => Gt(other, depth)

\* a block geometry is built from a 2 x 2 heightmap with a pair of texels of
\* equal depth and a pair of different depths
C24_Witness ==
  /\ built.stage = "built" /\ built.self.geometryStyle_ = "block"
  /\ built.result.err = ""
  /\ built.self.heightmapWidth_ = 2 /\ built.self.heightmapHeight_ = 2
  /\ \E p, q \in AdjacentPairs(built.self) :
       /\ FacesBetween(built.self, built.result.geometry, p) = {}
       /\ Cardinality(FacesBetween(built.self, built.result.geometry, q)) = 2
       /\ BlockSides(built.self, built.self.heightmapData_[0].values,
                    q.nx, q.ny)[q.back]


\* C25: a loaded entry under the heightmap key S holds the pixel data
\* decoded from the source S: so does every loaded entry of the cache, and
\* so does every payload a load handler gives to set under S.
C25_EntryHoldsItsSource ==
  /\ \A k \in DOMAIN cache :
       (cache[k].value.kind = "heightmap"
          /\ Truthy(cache[k].value.heightmapData))
       => cache[k].value.heightmapData.image.src = k
  /\ \A r \in hist.published : r.data.image.src = r.key


\* C26: every geometry createGeometry_ stores under a key was built, in each
\* slot whose source the key names, from the pixel array decoded from that
\* source.
C26_GeometryFromItsSources ==
  \A r \in hist.stored :
    \A i \in Slots :
      r.sources[i] # ""
      => /\ r.data[i].kind = "pixels"
         /\ r.data[i].image.src = r.sources[i]


\* the load of p is the completion of an earlier load of its slot: the slot
\* has another source by now
Superseded(p) == ents[p.ent].heightSources_[p.index] # p.key

\* C27: the load event of a heightmap whose slot got another source in the
\* meantime changes neither the pixel array nor the key of the slot and
\* builds nothing; and once no load is pending, each slot with a source of
\* an entity that is set up holds the pixel array and the key of that source.
C27_StaleLoadIgnored ==
  /\ [][\A p \in pending :
          (HeightmapLoad(p) /\ Superseded(p))
          => /\ ents'[p.ent].heightmapData_[p.index]
                  = ents[p.ent].heightmapData_[p.index]
             /\ ents'[p.ent].heightmapKeys_[p.index]
                  = ents[p.ent].heightmapKeys_[p.index]
             /\ hist'.builds = hist.builds]_vars
  /\ [](pending = {}
        => \A e \in Entities, i \in Slots :
             (ents[e].phase = "up" /\ ents[e].heightSources_[i] # "")
             => /\ ents[e].heightmapData_[i].kind = "pixels"
                /\ ents[e].heightmapData_[i].image.src
                     = ents[e].heightSources_[i]
                /\ ents[e].heightmapKeys_[i] = ents[e].heightSources_[i])


\* C28: an entity has dispatched at most as many morphEnd events as
\* morphBegin events.
C28_EndAfterBegin ==
  \A e \in MorphEntities : ents[e].morphEnd <= ents[e].morphBegin


\* the geometry keys in the cache or in the hands of a model or a view
GeometryKeys ==
  {k \in DOMAIN cache : cache[k].value.kind = "geometry"}
  \cup {ents[e].geometryKey_ : e \in {x \in Entities : ents[x].geometry_}}
  \cup {ents[e].views[ViewNames[n]].geometryKey_ :
          e \in {x \in Entities :
                   \E m \in 1 .. Len(ViewNames) :
                     ents[x].views[ViewNames[m]].geometry_},
          n \in {m \in 1 .. Len(ViewNames) :
                   \E x \in Entities : ents[x].views[ViewNames[m]].geometry_}}

\* the model has no geometry and its views have neither mesh nor texture
TornDown(ent) ==
  /\ ~ent.geometry_
  /\ \A n \in 1 .. Len(ViewNames) :
       /\ ~ent.views[ViewNames[n]].texture_
       /\ ~ent.views[ViewNames[n]].geometry_

\* how many references the models and views of all entities hold on the key
AllHolders(key) ==
  LET RECURSIVE Sum(_)
      Sum(S) == IF S = {} THEN 0
                ELSE LET e == CHOOSE x \in S : TRUE
                     IN HoldersOf(ents[e], key) + Sum(S \ {e})
  IN Sum(Entities)

\* C29: the refcount of every geometry key is the number of models and
\* views that hold a geometry under it (so no entry is left for a key nobody
\* holds), and release is never called for a key the cache does not have.
C29_GeometryRefcount ==
  /\ \A k \in GeometryKeys : RefCount(cache, k) = AllHolders(k)
  /\ "NotFound" \notin errors
  /\ \A e \in Entities :
       (ents[e].phase = "down" /\ TornDown(ents[e]))
       => \A k \in {GeometryKey(ents[e])} \cap DOMAIN cache :
            \E o \in Entities \ {e} : HoldersOf(ents[o], k) > 0

\* an entity was torn down and its views unloaded after it and its two views
\* held a geometry, and the other entity still holds the geometry under the
\* same key with its two views
C29_Witness ==
  \E e, o \in Entities :
    /\ e # o
    /\ ents[e].phase = "down" /\ TornDown(ents[e])
    /\ \A n \in 1 .. Len(ViewNames) : ents[e].views[ViewNames[n]].loaded
    /\ GeometryKey(ents[o]) = GeometryKey(ents[e])
    /\ HoldersOf(ents[o], GeometryKey(ents[e])) = 3
    /\ RefCount(cache, GeometryKey(ents[e])) = 3

\* C30: after morph(index, seconds) with seconds > 0 on a loaded entity, with
\* the clock advancing, update called for every frame and the transition
\* neither left paused nor superseded, the animator eventually leaves the
\* morphing state with currentMorphTargets_ equal to endMorphTargets_, and
\* morphEnd is dispatched exactly once for the transition.
\* The transition of e has ended:
MorphDone(e) ==
  /\ ~hist.anim[e].live /\ hist.anim[e].ends >= 1
  /\ ents[e].currentMorphTargets_ = ents[e].endMorphTargets_

\* another morph call took the place of the transition before it ended
MorphSuperseded(e) == ~hist.anim[e].live /\ hist.anim[e].ends = 0

\* the clock of the model stops at MaxTime with the duration not yet over
ClockRanOut(e) ==
  /\ now = MaxTime /\ ~hist.anim[e].paused
  /\ now - hist.anim[e].at - hist.anim[e].gap <= hist.anim[e].ms

\* every transition ends, unless superseded or cut by the end of the clock
C30_MorphEventuallyEnds ==
  \A e \in MorphEntities :
    hist.anim[e].live
    ~> (MorphDone(e) /\ ~ents[e].morphing_) \/ MorphSuperseded(e)
       \/ ClockRanOut(e)

\* no transition has more than one morphEnd
C30_MorphEndsOnce ==
  \A e \in MorphEntities : hist.anim[e].ms > 0 => hist.anim[e].ends <= 1

C30_MorphCompletes == C30_MorphEventuallyEnds /\ []C30_MorphEndsOnce

\* the vertex indices the faces of a geometry use
FaceIndices(g) == {g.faces[f][c] : f \in 1 .. Len(g.faces), c \in 1 .. 3}

\* C31: in every geometry built by the smooth, block or float algorithm,
\* for every width, height and depths, every index of every face refers to
\* an existing vertex (0 <= index < number of vertices); in the block style
\* for every pattern of emitted and elided side quads.
C31_FaceIndicesInRange ==
  (built.stage = "built" /\ built.self.geometryStyle_ \in GeometryStyles)
  => LET g == built.result.geometry
     IN FaceIndices(g) \subseteq 0 .. (Len(g.vertices) - 1)

\* a block geometry is built from a 2 x 2 heightmap in which a texel has an
\* emitted and an elided side quad, and a face uses the last vertex
C31_Witness ==
  /\ built.stage = "built" /\ built.self.geometryStyle_ = "block"
  /\ built.result.err = ""
  /\ built.self.heightmapWidth_ = 2 /\ built.self.heightmapHeight_ = 2
  /\ \E x, y \in 0 .. 1 :
       LET sides == BlockSides(built.self,
                               built.self.heightmapData_[0].values, x, y)
       IN (\E m \in 1 .. 4 : sides[m]) /\ (\E m \in 1 .. 4 : ~sides[m])
  /\ Len(built.result.geometry.vertices) > 16
  /\ (Len(built.result.geometry.vertices) - 1)
       \in FaceIndices(built.result.geometry)

====
